---- MODULE Spec2Model ----
(***************************************************************************)
(* A model of package nmea (kortschak/nmea): the sentence decoder          *)
(* (ParseTo, Parse, parseTo and the converters of methodFor), the type     *)
(* registry (Register, registry, registryLock) and the AIS codec           *)
(* (DeArmorAIS, SixBitToASCII, AISBitField).                               *)
(*                                                                         *)
(* Go strings and byte slices are sequences of byte values 0..255.  A      *)
(* struct value is [typ, val]: the name of its struct type and one value   *)
(* per field.  Every field value is a sequence of integers: a string is    *)
(* its bytes, an integer is <<n>>, a float is the exact rational           *)
(* <<num, den>> in lowest terms, a time.Time is                            *)
(* <<year, month, day, hour, min, sec, nsec>>, a [0]byte array is <<>>.    *)
(* An error is a record [kind, func, msg]; nil is NoError.  A run time     *)
(* panic is reported as an error of kind "panic".                          *)
(***************************************************************************)
EXTENDS Integers, Sequences, FiniteSets, TLC

VARIABLES
    sentence,   \* decode: the sentence text handed to ParseTo / Parse
    dst,        \* decode: the destination struct ParseTo writes into
    ret,        \* decode: what the last ParseTo / Parse call returned
    registry,   \* the package's registry map: type key -> registered struct
    lastReg,    \* registry: history, the last effective Register call per key
    regRet,     \* registry: what the last Register / Parse call did
    lock,       \* concurrency: state of registryLock
    procs,      \* concurrency: each goroutine's call, position and locals
    ais         \* AIS codec: the call made and its result

vars == <<sentence, dst, ret, registry, lastReg, regRet, lock, procs, ais>>

-----------------------------------------------------------------------------
(* Bytes and strings *)

\* The printable ASCII characters, in code order from 32 (space) to 126 (~);
\* the double quote, the backslash and the backtick are spelled out.
Printable ==
    << " ", "!", "quote", "#", "$", "%", "&", "'", "(", ")", "*", "+", ",", "-", ".", "/",
       "0", "1", "2", "3", "4", "5", "6", "7", "8", "9", ":", ";", "<", "=", ">", "?",
       "@", "A", "B", "C", "D", "E", "F", "G", "H", "I", "J", "K", "L", "M", "N", "O",
       "P", "Q", "R", "S", "T", "U", "V", "W", "X", "Y", "Z", "[", "backslash", "]", "^", "_",
       "backtick", "a", "b", "c", "d", "e", "f", "g", "h", "i", "j", "k", "l", "m", "n", "o",
       "p", "q", "r", "s", "t", "u", "v", "w", "x", "y", "z", "{", "|", "}", "~" >>

\* The byte value of a character literal such as '$'.
Ord(c) == 31 + (CHOOSE i \in 1..Len(Printable) : Printable[i] = c)

\* The bytes of a string literal, given character by character.
S(cs) == [i \in 1..Len(cs) |-> Ord(cs[i])]

IsDigit(b) == b >= Ord("0") /\ b <= Ord("9")

\* Bit b of x, for x >= 0: (x >> b) & 1.
BitOf(x, b) == (x \div (2 ^ b)) % 2

\* a ^ b on bytes (Go's ^ operator, line 692).
RECURSIVE Xor(_, _)
Xor(a, b) ==
    IF a = 0 /\ b = 0 THEN 0
    ELSE (((a % 2) + (b % 2)) % 2) + 2 * Xor(a \div 2, b \div 2)

\* strings.Index(s, sep) for a one byte separator: the 0-based index of the
\* first occurrence, or -1.
Index(s, c) ==
    IF \E i \in 1..Len(s) : s[i] = c
    THEN (CHOOSE i \in 1..Len(s) : s[i] = c /\ \A j \in 1..(i - 1) : s[j] # c) - 1
    ELSE -1

\* strings.Split(s, sep) for a one byte separator: every token, empty ones
\* included; the split of "" is one empty token.
RECURSIVE Split(_, _)
Split(s, c) ==
    LET k == Index(s, c) IN
    IF k = -1 THEN << s >>
    ELSE << SubSeq(s, 1, k) >> \o Split(SubSeq(s, k + 2, Len(s)), c)

-----------------------------------------------------------------------------
(* Errors *)

NoError == [kind |-> "nil", func |-> "", msg |-> ""]
Sentinel(name) == [kind |-> name, func |-> "", msg |-> ""]

ErrTooShort      == Sentinel("ErrTooShort")
ErrNoSigil       == Sentinel("ErrNoSigil")
ErrChecksum      == Sentinel("ErrChecksum")
ErrNotPointer    == Sentinel("ErrNotPointer")
ErrNotStruct     == Sentinel("ErrNotStruct")
ErrNMEAType      == Sentinel("ErrNMEAType")
ErrType          == Sentinel("ErrType")
ErrLateType      == Sentinel("ErrLateType")
ErrMissingType   == Sentinel("ErrMissingType")
ErrTypeSyntax    == Sentinel("ErrTypeSyntax")
ErrNotRegistered == Sentinel("ErrNotRegistered")
ErrBadBinary     == Sentinel("ErrBadBinary")

\* *strconv.NumError{Func: fn, Err: strconv.ErrSyntax | strconv.ErrRange}
NumError(fn, msg) == [kind |-> "NumError", func |-> fn, msg |-> msg]
\* *time.ParseError
TimeParseError(msg) == [kind |-> "ParseError", func |-> "time.Parse", msg |-> msg]
\* a run time panic raised inside the call
Panic(msg) == [kind |-> "panic", func |-> "", msg |-> msg]

-----------------------------------------------------------------------------
(* strconv *)

\* The value of one digit in the given base, or -1.
DigitVal(b, base) ==
    LET v == IF IsDigit(b) THEN b - Ord("0")
             ELSE IF b >= Ord("a") /\ b <= Ord("z") THEN b - Ord("a") + 10
             ELSE IF b >= Ord("A") /\ b <= Ord("Z") THEN b - Ord("A") + 10
             ELSE -1
    IN IF v < base THEN v ELSE -1

RECURSIVE DigitsValue(_, _, _)
DigitsValue(s, base, acc) ==
    IF s = << >> THEN acc
    ELSE DigitsValue(Tail(s), base, acc * base + DigitVal(Head(s), base))

\* strconv.ParseUint(s, base, bitSize) for base 10 or 16 (no base prefix, no
\* underscores).  bitSize 0 means int, 64 bits.  Inputs are short enough
\* that the 64 bit range is never exceeded.
ParseUint(s, base, bitSize) ==
    IF s = << >> \/ \E i \in 1..Len(s) : DigitVal(s[i], base) = -1
    THEN [err |-> NumError("ParseUint", "invalid syntax"), val |-> 0]
    ELSE LET v == DigitsValue(s, base, 0) IN
         IF bitSize \in 1..30 /\ v >= 2 ^ bitSize
         THEN [err |-> NumError("ParseUint", "value out of range"), val |-> 2 ^ bitSize - 1]
         ELSE [err |-> NoError, val |-> v]

\* strconv.ParseInt(s, base, bitSize): an optional sign, then ParseUint,
\* then the signed range check.
ParseInt(s, base, bitSize) ==
    IF s = << >> THEN [err |-> NumError("ParseInt", "invalid syntax"), val |-> 0]
    ELSE LET neg  == s[1] = Ord("-")
             body == IF s[1] = Ord("+") \/ s[1] = Ord("-") THEN Tail(s) ELSE s
             un   == ParseUint(body, base, 64)
         IN IF un.err # NoError
            THEN [err |-> NumError("ParseInt", un.err.msg), val |-> 0]
            ELSE IF bitSize \in 1..30 /\ ~neg /\ un.val >= 2 ^ (bitSize - 1)
            THEN [err |-> NumError("ParseInt", "value out of range"),
                  val |-> 2 ^ (bitSize - 1) - 1]
            ELSE IF bitSize \in 1..30 /\ neg /\ un.val > 2 ^ (bitSize - 1)
            THEN [err |-> NumError("ParseInt", "value out of range"),
                  val |-> -(2 ^ (bitSize - 1))]
            ELSE [err |-> NoError, val |-> IF neg THEN -un.val ELSE un.val]

RECURSIVE Gcd(_, _)
Gcd(a, b) == IF b = 0 THEN a ELSE Gcd(b, a % b)

Abs(n) == IF n < 0 THEN -n ELSE n

\* The rational num/den in lowest terms with a positive denominator.
Rat(num, den) ==
    LET g == Gcd(Abs(num), Abs(den))
        sgn == IF den < 0 THEN -1 ELSE 1
    IN << sgn * (num \div g), sgn * (den \div g) >>

Pow10(n) == 10 ^ n

\* strconv.ParseFloat(s, 64) on plain decimal text: sign? digits* [. digits*]
\* with at least one digit.  Exponents, hexadecimal floats, "inf" and "nan"
\* are outside the inputs of this model.  The value is the exact rational.
ParseFloat(s) ==
    LET signed == s # << >> /\ (s[1] = Ord("-") \/ s[1] = Ord("+"))
        neg    == s # << >> /\ s[1] = Ord("-")
        body   == IF signed THEN Tail(s) ELSE s
        dot    == Index(body, Ord("."))
        ipart  == IF dot = -1 THEN body ELSE SubSeq(body, 1, dot)
        fpart  == IF dot = -1 THEN << >> ELSE SubSeq(body, dot + 2, Len(body))
        digits == ipart \o fpart
    IN IF digits = << >> \/ \E i \in 1..Len(digits) : ~IsDigit(digits[i])
       THEN [err |-> NumError("ParseFloat", "invalid syntax"), val |-> << 0, 1 >>]
       ELSE LET m == DigitsValue(digits, 10, 0) IN
            [err |-> NoError,
             val |-> Rat(IF neg THEN -m ELSE m, Pow10(Len(fpart)))]

-----------------------------------------------------------------------------
(* time.ParseInLocation for the two layouts the package uses *)

\* time.getnum: one or two leading digits (exactly two when fixed).
GetNum(s, fixed) ==
    IF s = << >> \/ ~IsDigit(s[1]) THEN [ok |-> FALSE, n |-> 0, rest |-> s]
    ELSE IF Len(s) < 2 \/ ~IsDigit(s[2])
    THEN IF fixed THEN [ok |-> FALSE, n |-> 0, rest |-> s]
         ELSE [ok |-> TRUE, n |-> s[1] - Ord("0"), rest |-> Tail(s)]
    ELSE [ok |-> TRUE, n |-> (s[1] - Ord("0")) * 10 + (s[2] - Ord("0")),
          rest |-> SubSeq(s, 3, Len(s))]

\* The digits that follow a '.' or ',' after the seconds: how many bytes of
\* s the fractional second takes (0 when s does not start with one).
RECURSIVE DigitRun(_)
DigitRun(s) == IF s # << >> /\ IsDigit(s[1]) THEN 1 + DigitRun(Tail(s)) ELSE 0

FracLen(s) ==
    IF Len(s) >= 2 /\ (s[1] = Ord(".") \/ s[1] = Ord(",")) /\ IsDigit(s[2])
    THEN 1 + DigitRun(Tail(s))
    ELSE 0

\* time.parseNanoseconds over the digits of the fraction (at most 9 here).
Nanoseconds(digits) == DigitsValue(digits, 10, 0) * Pow10(9 - Len(digits))

ZeroTime == << 1, 1, 1, 0, 0, 0, 0 >>

\* time.ParseInLocation("150405", s, time.UTC)
ParseClock(s) ==
    LET h == GetNum(s, FALSE)
        m == GetNum(h.rest, TRUE)
        x == GetNum(m.rest, TRUE)
        n == FracLen(x.rest)
        after == SubSeq(x.rest, n + 1, Len(x.rest))
    IN IF ~h.ok THEN [err |-> TimeParseError("cannot parse hour"), val |-> ZeroTime]
       ELSE IF h.n >= 24 THEN [err |-> TimeParseError("hour out of range"), val |-> ZeroTime]
       ELSE IF ~m.ok THEN [err |-> TimeParseError("cannot parse minute"), val |-> ZeroTime]
       ELSE IF m.n >= 60 THEN [err |-> TimeParseError("minute out of range"), val |-> ZeroTime]
       ELSE IF ~x.ok THEN [err |-> TimeParseError("cannot parse second"), val |-> ZeroTime]
       ELSE IF x.n >= 60 THEN [err |-> TimeParseError("second out of range"), val |-> ZeroTime]
       ELSE IF n > 10
       THEN [err |-> TimeParseError("fractional second out of range"), val |-> ZeroTime]
       ELSE IF after # << >> THEN [err |-> TimeParseError("extra text"), val |-> ZeroTime]
       ELSE [err |-> NoError,
             val |-> << 0, 1, 1, h.n, m.n, x.n,
                        IF n = 0 THEN 0 ELSE Nanoseconds(SubSeq(x.rest, 2, n)) >>]

IsLeap(y) == y % 4 = 0 /\ (y % 100 # 0 \/ y % 400 = 0)

DaysIn(month, year) ==
    IF month = 2 THEN (IF IsLeap(year) THEN 29 ELSE 28)
    ELSE IF month \in {4, 6, 9, 11} THEN 30 ELSE 31

\* time.ParseInLocation("020106", s, time.UTC): a two digit year yy is read
\* as 19yy from 69 on and as 20yy below.
ParseDate(s) ==
    LET d == GetNum(s, TRUE)
        m == GetNum(d.rest, TRUE)
        yy == SubSeq(m.rest, 1, 2)
        y == ParseInt(yy, 10, 0)
        after == SubSeq(m.rest, 3, Len(m.rest))
        year == IF y.val >= 69 THEN y.val + 1900 ELSE y.val + 2000
    IN IF ~d.ok THEN [err |-> TimeParseError("cannot parse day"), val |-> ZeroTime]
       ELSE IF ~m.ok THEN [err |-> TimeParseError("cannot parse month"), val |-> ZeroTime]
       ELSE IF m.n < 1 \/ m.n > 12
       THEN [err |-> TimeParseError("month out of range"), val |-> ZeroTime]
       ELSE IF Len(m.rest) < 2 \/ y.err # NoError
       THEN [err |-> TimeParseError("cannot parse year"), val |-> ZeroTime]
       ELSE IF after # << >> THEN [err |-> TimeParseError("extra text"), val |-> ZeroTime]
       ELSE IF d.n < 1 \/ d.n > DaysIn(m.n, year)
       THEN [err |-> TimeParseError("day out of range"), val |-> ZeroTime]
       ELSE [err |-> NoError, val |-> << year, m.n, d.n, 0, 0, 0, 0 >>]

-----------------------------------------------------------------------------
(* Field kinds and the converters of methodFor *)

IntKinds  == {"int", "int8", "int16", "int32", "int64"}
UintKinds == {"uint", "uint8", "uint16", "uint32", "uint64"}
FloatKinds == {"float32", "float64"}

\* sizeOf: the bit size handed to strconv for each integer kind.
sizeOf ==
    [int |-> 0, int8 |-> 8, int16 |-> 16, int32 |-> 32, int64 |-> 64,
     uint |-> 0, uint8 |-> 8, uint16 |-> 16, uint32 |-> 32, uint64 |-> 64]

\* The zero value of a field of the given kind.
Zero(kind) ==
    IF kind \in IntKinds \cup UintKinds THEN << 0 >>
    ELSE IF kind \in FloatKinds THEN << 0, 1 >>
    ELSE IF kind = "time" THEN ZeroTime
    ELSE << >>

\* A converter takes the field (its kind and current value) and the token
\* and returns the error and the field's value afterwards.
Conv(e, v) == [err |-> e, val |-> v]

\* What a converter does with the result r of a strconv or time parse: the
\* error is returned with the field as it was, or the value is stored.
\* stored is for a value that is the field's value, storedInt for an
\* integer.
stored(r, old)    == IF r.err # NoError THEN Conv(r.err, old) ELSE Conv(NoError, r.val)
storedInt(r, old) == IF r.err # NoError THEN Conv(r.err, old) ELSE Conv(NoError, << r.val >>)

setInteger(kind, old, field) ==
    IF kind \in IntKinds THEN
        IF Len(field) = 0 THEN Conv(NoError, << 0 >>)
        ELSE storedInt(ParseInt(field, 10, sizeOf[kind]), old)
    ELSE IF kind \in UintKinds THEN
        IF Len(field) = 0 THEN Conv(NoError, << 0 >>)
        ELSE storedInt(ParseUint(field, 10, sizeOf[kind]), old)
    ELSE Conv(ErrType, old)

\* Both float kinds store the parsed value; float32 rounding is not modelled.
setFloat(kind, old, field) ==
    IF kind \in FloatKinds THEN
        IF Len(field) = 0 THEN Conv(NoError, << 0, 1 >>)
        ELSE stored(ParseFloat(field), old)
    ELSE Conv(ErrType, old)

setNumber(kind, old, field) ==
    IF kind \in FloatKinds THEN setFloat(kind, old, field)
    ELSE IF kind \in IntKinds \cup UintKinds THEN setInteger(kind, old, field)
    ELSE Conv(ErrType, old)

\* Integer quotient rounded toward zero, as math.Modf splits a float.
TruncDiv(a, b) == IF a >= 0 THEN a \div b ELSE -((-a) \div b)

\* degreesOf with the degrees rounded down instead of toward zero.
degreesOf_Floor(n, d) == Rat(n - 40 * (n \div (100 * d)) * d, 60 * d)

\* deg, min := math.Modf(val / 100); deg + min*100/60, exactly, for the
\* value n/d: (n/d - 40*deg) / 60.
degreesOf(n, d) == Rat(n - 40 * TruncDiv(n, 100 * d) * d, 60 * d)

\* storedLatLon that clears the field when the parse fails.
storedLatLon_ZeroOnError(r, old) ==
    IF r.err # NoError THEN Conv(r.err, << 0, 1 >>)
    ELSE Conv(NoError, degreesOf(r.val[1], r.val[2]))

storedLatLon(r, old) ==
    IF r.err # NoError THEN Conv(r.err, old)
    ELSE Conv(NoError, degreesOf(r.val[1], r.val[2]))

setLatLon(kind, old, field) ==
    IF kind \in FloatKinds THEN
        IF Len(field) = 0 THEN Conv(NoError, << 0, 1 >>)
        ELSE storedLatLon(ParseFloat(field), old)
    ELSE Conv(ErrType, old)

setString(kind, old, field) ==
    IF kind = "string" THEN Conv(NoError, field)
    ELSE IF kind = "bytes" THEN Conv(NoError, field)
    ELSE Conv(ErrType, old)

\* setDate that takes an empty token for the zero time, as the number
\* converters take it for 0.
setDate_EmptyIsZero(kind, old, field) ==
    IF kind # "time" THEN Conv(ErrType, old)
    ELSE IF Len(field) = 0 THEN Conv(NoError, ZeroTime)
    ELSE stored(ParseDate(field), old)

setDate(kind, old, field) ==
    IF kind # "time" THEN Conv(ErrType, old)
    ELSE stored(ParseDate(field), old)

setTime(kind, old, field) ==
    IF kind # "time" THEN Conv(ErrType, old)
    ELSE stored(ParseClock(field), old)

\* The tags of the struct fields.
noTag       == << >>
tagNumber   == S(<< "n", "u", "m", "b", "e", "r" >>)
tagString   == S(<< "s", "t", "r", "i", "n", "g" >>)
tagLatLon   == S(<< "l", "a", "t", "l", "o", "n" >>)
tagDate     == S(<< "d", "a", "t", "e" >>)
tagTime     == S(<< "t", "i", "m", "e" >>)
tagChecksum == S(<< "c", "h", "e", "c", "k", "s", "u", "m" >>)

\* The keys of the methodFor map.
methodTags == {tagNumber, tagString, tagLatLon, tagDate, tagTime}

\* methodFor[tag](dst, field) for a tag of the map.
methodFor(tag, kind, old, field) ==
    IF tag = tagNumber THEN setNumber(kind, old, field)
    ELSE IF tag = tagString THEN setString(kind, old, field)
    ELSE IF tag = tagLatLon THEN setLatLon(kind, old, field)
    ELSE IF tag = tagDate THEN setDate(kind, old, field)
    ELSE setTime(kind, old, field)

-----------------------------------------------------------------------------
(* The struct types of the package *)

\* One struct field: its Go name, its nmea tag and the kind of its type.
Fld(n, t, k) == [name |-> n, tag |-> t, kind |-> k]

\* BOD (part_001 lines 10-21)
BOD ==
    << Fld("Type", S(<<"G", "P", "B", "O", "D">>), "string"),
       Fld("True", tagNumber, "float64"),
       Fld("_", noTag, "array"),
       Fld("Magnetic", tagNumber, "float64"),
       Fld("_", noTag, "array"),
       Fld("Destination", tagString, "string"),
       Fld("Start", tagString, "string"),
       Fld("Checksum", tagChecksum, "uint8") >>

\* BWC (part_001 lines 24-41)
BWC ==
    << Fld("Type", S(<<"G", "P", "B", "W", "C">>), "string"),
       Fld("Timestamp", tagTime, "time"),
       Fld("Latitude", tagLatLon, "float64"),
       Fld("NorthSouth", tagString, "string"),
       Fld("Longitude", tagLatLon, "float64"),
       Fld("EastWest", tagString, "string"),
       Fld("True", tagNumber, "float64"),
       Fld("_", noTag, "array"),
       Fld("Magnetic", tagNumber, "float64"),
       Fld("_", noTag, "array"),
       Fld("Range", tagNumber, "float64"),
       Fld("RangeUnit", tagString, "string"),
       Fld("Waypoint", tagString, "string"),
       Fld("Checksum", tagChecksum, "uint8") >>

\* GLL (part_001 lines 44-54)
GLL ==
    << Fld("Type", S(<<"G", "P", "G", "L", "L">>), "string"),
       Fld("Latitude", tagLatLon, "float64"),
       Fld("NorthSouth", tagString, "string"),
       Fld("Longitude", tagLatLon, "float64"),
       Fld("EastWest", tagString, "string"),
       Fld("Timestamp", tagTime, "time"),
       Fld("Checksum", tagChecksum, "uint8") >>

\* GGA (part_001 lines 57-82)
GGA ==
    << Fld("Type", S(<<"G", "P", "G", "G", "A">>), "string"),
       Fld("Timestamp", tagTime, "time"),
       Fld("Latitude", tagLatLon, "float64"),
       Fld("NorthSouth", tagString, "string"),
       Fld("Longitude", tagLatLon, "float64"),
       Fld("EastWest", tagString, "string"),
       Fld("Quality", tagNumber, "int"),
       Fld("Satellites", tagNumber, "int"),
       Fld("HDOP", tagNumber, "float64"),
       Fld("Altitude", tagNumber, "float64"),
       Fld("AltitudeUnit", tagString, "string"),
       Fld("Separation", tagNumber, "float64"),
       Fld("SeparationUnit", tagString, "string"),
       Fld("Age", tagNumber, "float64"),
       Fld("DiffReferenceStationID", tagString, "string"),
       Fld("Checksum", tagChecksum, "uint8") >>

\* GSA (part_001 lines 85-109)
GSA ==
    << Fld("Type", S(<<"G", "P", "G", "S", "A">>), "string"),
       Fld("Mode", tagString, "string"),
       Fld("Fix", tagNumber, "int"),
       Fld("SV0", tagString, "string"),
       Fld("SV1", tagString, "string"),
       Fld("SV2", tagString, "string"),
       Fld("SV3", tagString, "string"),
       Fld("SV4", tagString, "string"),
       Fld("SV5", tagString, "string"),
       Fld("SV6", tagString, "string"),
       Fld("SV7", tagString, "string"),
       Fld("SV8", tagString, "string"),
       Fld("SV9", tagString, "string"),
       Fld("SV10", tagString, "string"),
       Fld("SV11", tagString, "string"),
       Fld("PDOP", tagNumber, "float64"),
       Fld("HDOP", tagNumber, "float64"),
       Fld("VDOP", tagNumber, "float64"),
       Fld("Checksum", tagChecksum, "uint8") >>

\* GSV (part_001 lines 112-141)
GSV ==
    << Fld("Type", S(<<"G", "P", "G", "S", "V">>), "string"),
       Fld("Messages", tagNumber, "int"),
       Fld("MessageNumber", tagNumber, "int"),
       Fld("SatellitesInView", tagNumber, "int"),
       Fld("Satellite0PRN", tagNumber, "int"),
       Fld("Elevation0", tagNumber, "int"),
       Fld("Azimuth0", tagNumber, "int"),
       Fld("SNR0", tagNumber, "int"),
       Fld("Satellite1PRN", tagNumber, "int"),
       Fld("Elevation1", tagNumber, "int"),
       Fld("Azimuth1", tagNumber, "int"),
       Fld("SNR1", tagNumber, "int"),
       Fld("Satellite2PRN", tagNumber, "int"),
       Fld("Elevation2", tagNumber, "int"),
       Fld("Azimuth2", tagNumber, "int"),
       Fld("SNR2", tagNumber, "int"),
       Fld("Satellite3PRN", tagNumber, "int"),
       Fld("Elevation3", tagNumber, "int"),
       Fld("Azimuth3", tagNumber, "int"),
       Fld("SNR3", tagNumber, "int"),
       Fld("Checksum", tagChecksum, "uint8") >>

\* HDT (part_001 lines 144-151)
HDT ==
    << Fld("Type", S(<<"G", "P", "H", "D", "T">>), "string"),
       Fld("Heading", tagNumber, "float64"),
       Fld("_", noTag, "array"),
       Fld("Checksum", tagChecksum, "uint8") >>

\* R00 (part_001 lines 154-172)
R00 ==
    << Fld("Type", S(<<"G", "P", "R", "0", "0">>), "string"),
       Fld("WP0", tagString, "string"),
       Fld("WP1", tagString, "string"),
       Fld("WP2", tagString, "string"),
       Fld("WP3", tagString, "string"),
       Fld("WP4", tagString, "string"),
       Fld("WP5", tagString, "string"),
       Fld("WP6", tagString, "string"),
       Fld("WP7", tagString, "string"),
       Fld("WP8", tagString, "string"),
       Fld("WP9", tagString, "string"),
       Fld("WP10", tagString, "string"),
       Fld("WP11", tagString, "string"),
       Fld("WP13", tagString, "string"),
       Fld("Checksum", tagChecksum, "uint8") >>

\* RMA (part_001 lines 175-193)
RMA ==
    << Fld("Type", S(<<"G", "P", "R", "M", "A">>), "string"),
       Fld("Status", tagString, "string"),
       Fld("Latitude", tagLatLon, "float64"),
       Fld("NorthSouth", tagString, "string"),
       Fld("Longitude", tagLatLon, "float64"),
       Fld("EastWest", tagString, "string"),
       Fld("_", noTag, "array"),
       Fld("_", noTag, "array"),
       Fld("Speed", tagNumber, "float64"),
       Fld("CourseOverGround", tagNumber, "int"),
       Fld("Variation", tagNumber, "float64"),
       Fld("VarDirection", tagString, "string"),
       Fld("Checksum", tagChecksum, "uint8") >>

\* RMB (part_001 lines 196-219)
RMB ==
    << Fld("Type", S(<<"G", "P", "R", "M", "B">>), "string"),
       Fld("Status", tagString, "string"),
       Fld("CrosstrackError", tagNumber, "float64"),
       Fld("CorrectDirection", tagString, "string"),
       Fld("Origin", tagString, "string"),
       Fld("Destination", tagString, "string"),
       Fld("Latitude", tagLatLon, "float64"),
       Fld("NorthSouth", tagString, "string"),
       Fld("Longitude", tagLatLon, "float64"),
       Fld("EastWest", tagString, "string"),
       Fld("RangeToDestination", tagNumber, "float64"),
       Fld("BearingToDestination", tagNumber, "float64"),
       Fld("ClosingVelocity", tagNumber, "float64"),
       Fld("ArrivalStatus", tagString, "string"),
       Fld("Checksum", tagChecksum, "uint8") >>

\* RMC (part_001 lines 222-243)
RMC ==
    << Fld("Type", S(<<"G", "P", "R", "M", "C">>), "string"),
       Fld("Time", tagTime, "time"),
       Fld("Status", tagString, "string"),
       Fld("Latitude", tagLatLon, "float64"),
       Fld("NorthSouth", tagString, "string"),
       Fld("Longitude", tagLatLon, "float64"),
       Fld("EastWest", tagString, "string"),
       Fld("Speed", tagNumber, "float64"),
       Fld("Track", tagNumber, "float64"),
       Fld("Date", tagDate, "time"),
       Fld("MagneticVariation", tagNumber, "float64"),
       Fld("VarDirection", tagString, "string"),
       Fld("Checksum", tagChecksum, "uint8") >>

\* TRF (part_001 lines 261-278)
TRF ==
    << Fld("Type", S(<<"G", "P", "T", "R", "F">>), "string"),
       Fld("Time", tagTime, "time"),
       Fld("Date", tagDate, "time"),
       Fld("Latitude", tagLatLon, "float64"),
       Fld("NorthSouth", tagString, "string"),
       Fld("Longitude", tagLatLon, "float64"),
       Fld("EastWest", tagString, "string"),
       Fld("Elevation", tagNumber, "float64"),
       Fld("Iterations", tagNumber, "float64"),
       Fld("DoplerIntervals", tagNumber, "float64"),
       Fld("UpdateDistance", tagNumber, "float64"),
       Fld("Satellite", tagString, "string") >>

\* STN (part_001 lines 281-285)
STN ==
    << Fld("Type", S(<<"G", "P", "S", "T", "N">>), "string"),
       Fld("Talker", tagNumber, "uint8") >>

\* VBW (part_001 lines 288-298)
VBW ==
    << Fld("Type", S(<<"G", "P", "V", "B", "W">>), "string"),
       Fld("LongitudinalWaterSpeed", tagNumber, "float64"),
       Fld("TransverseWaterSpeed", tagNumber, "float64"),
       Fld("WaterSpeedStatus", tagString, "string"),
       Fld("LongitudinalGroundSpeed", tagNumber, "float64"),
       Fld("TransverseGroundSpeed", tagNumber, "float64"),
       Fld("GroundSpeedStatus", tagString, "string") >>

\* VTG (part_001 lines 301-314)
VTG ==
    << Fld("Type", S(<<"G", "P", "V", "T", "G">>), "string"),
       Fld("TrackTrue", tagNumber, "float64"),
       Fld("_", noTag, "array"),
       Fld("TrackMagnetic", tagNumber, "float64"),
       Fld("_", noTag, "array"),
       Fld("SpeedKnots", tagNumber, "float64"),
       Fld("_", noTag, "array"),
       Fld("SpeedKph", tagNumber, "float64"),
       Fld("_", noTag, "array"),
       Fld("Checksum", tagChecksum, "uint8") >>

\* WPL (part_001 lines 317-328)
WPL ==
    << Fld("Type", S(<<"G", "P", "W", "P", "L">>), "string"),
       Fld("Latitude", tagLatLon, "float64"),
       Fld("NorthSouth", tagString, "string"),
       Fld("Longitude", tagLatLon, "float64"),
       Fld("EastWest", tagString, "string"),
       Fld("Waypoint", tagString, "string"),
       Fld("Checksum", tagChecksum, "uint8") >>

\* XTE (part_001 lines 331-342)
XTE ==
    << Fld("Type", S(<<"G", "P", "X", "T", "E">>), "string"),
       Fld("GeneralWarning", tagString, "string"),
       Fld("LockFlag", tagString, "string"),
       Fld("CrossTrackError", tagNumber, "float64"),
       Fld("Steer", tagString, "string"),
       Fld("Units", tagString, "string"),
       Fld("Checksum", tagChecksum, "uint8") >>

\* ZDA (part_001 lines 345-354)
ZDA ==
    << Fld("Type", S(<<"G", "P", "Z", "D", "A">>), "string"),
       Fld("Time", tagTime, "time"),
       Fld("Day", tagNumber, "uint8"),
       Fld("Month", tagNumber, "uint8"),
       Fld("Year", tagNumber, "int"),
       Fld("TimeZone", tagNumber, "int8"),
       Fld("TimeZoneMinutes", tagNumber, "int8") >>

\* RME (part_001 lines 357-368)
RME ==
    << Fld("Type", S(<<"P", "G", "R", "M", "E">>), "string"),
       Fld("HPE", tagNumber, "float64"),
       Fld("_", noTag, "array"),
       Fld("VPE", tagNumber, "float64"),
       Fld("_", noTag, "array"),
       Fld("OSEPE", tagNumber, "float64"),
       Fld("_", noTag, "array"),
       Fld("Checksum", tagChecksum, "uint8") >>

\* RMM (part_001 lines 371-377)
RMM ==
    << Fld("Type", S(<<"P", "G", "R", "M", "M">>), "string"),
       Fld("MapDatum", tagString, "string"),
       Fld("Checksum", tagChecksum, "uint8") >>

\* RMZ (part_001 lines 380-388)
RMZ ==
    << Fld("Type", S(<<"P", "G", "R", "M", "Z">>), "string"),
       Fld("Altitude", tagNumber, "float64"),
       Fld("_", noTag, "array"),
       Fld("PositionFixDimensions", tagNumber, "int8"),
       Fld("Checksum", tagChecksum, "uint8") >>

\* LIB (part_001 lines 391-399)
LIB ==
    << Fld("Type", S(<<"P", "S", "L", "I", "B">>), "string"),
       Fld("Frequency", tagNumber, "float64"),
       Fld("BitRate", tagNumber, "float64"),
       Fld("RequestType", tagString, "string"),
       Fld("Checksum", tagChecksum, "uint8") >>

\* GNS (part_001 lines 402-423)
GNS ==
    << Fld("Type", S(<<"/", "G", "[", "N", "P", "L", "]", "G", "N", "S", "/">>), "string"),
       Fld("Timestamp", tagTime, "time"),
       Fld("Latitude", tagLatLon, "float64"),
       Fld("NorthSouth", tagString, "string"),
       Fld("Longitude", tagLatLon, "float64"),
       Fld("EastWest", tagString, "string"),
       Fld("Mode", tagString, "string"),
       Fld("Satellites", tagNumber, "int"),
       Fld("HDOP", tagNumber, "float64"),
       Fld("Altitude", tagNumber, "float64"),
       Fld("Separation", tagNumber, "float64"),
       Fld("Age", tagNumber, "float64"),
       Fld("ReferenceStation", tagNumber, "uint16"),
       Fld("Checksum", tagChecksum, "uint8") >>

\* THS (part_001 lines 426-433)
THS ==
    << Fld("Type", S(<<"/", ".", ".", "T", "H", "S", "/">>), "string"),
       Fld("Heading", tagNumber, "float64"),
       Fld("Status", tagString, "string"),
       Fld("Checksum", tagChecksum, "uint8") >>

\* VDMVDO (part_001 lines 436-451)
VDMVDO ==
    << Fld("Type", S(<<"/", ".", ".", "V", "D", "[", "M", "O", "]", "/">>), "string"),
       Fld("Fragments", tagNumber, "int"),
       Fld("FragmentNumber", tagNumber, "int"),
       Fld("MessageID", tagString, "string"),
       Fld("ChannelCode", tagString, "string"),
       Fld("Data", tagString, "string"),
       Fld("Padding", tagNumber, "uint8"),
       Fld("Checksum", tagChecksum, "uint8") >>
\* The composite literal of registry (lines 549-576): each key with the
\* struct type of its value.
registryLiteral ==
    {
       << S(<<"A", "I", "V", "D", "M">>), "VDMVDO" >>,
       << S(<<"A", "I", "V", "D", "O">>), "VDMVDO" >>,
       << S(<<"G", "L", "G", "N", "S">>), "GNS" >>,
       << S(<<"G", "N", "G", "N", "S">>), "GNS" >>,
       << S(<<"G", "P", "G", "N", "S">>), "GNS" >>,
       << S(<<"G", "L", "B", "O", "D">>), "BOD" >>,
       << S(<<"G", "N", "B", "O", "D">>), "BOD" >>,
       << S(<<"G", "P", "B", "O", "D">>), "BOD" >>,
       << S(<<"G", "L", "B", "W", "C">>), "BWC" >>,
       << S(<<"G", "N", "B", "W", "C">>), "BWC" >>,
       << S(<<"G", "P", "B", "W", "C">>), "BWC" >>,
       << S(<<"G", "L", "G", "G", "A">>), "GGA" >>,
       << S(<<"G", "N", "G", "G", "A">>), "GGA" >>,
       << S(<<"G", "P", "G", "G", "A">>), "GGA" >>,
       << S(<<"G", "L", "G", "L", "L">>), "GLL" >>,
       << S(<<"G", "N", "G", "L", "L">>), "GLL" >>,
       << S(<<"G", "P", "G", "L", "L">>), "GLL" >>,
       << S(<<"G", "L", "G", "S", "A">>), "GSA" >>,
       << S(<<"G", "N", "G", "S", "A">>), "GSA" >>,
       << S(<<"G", "P", "G", "S", "A">>), "GSA" >>,
       << S(<<"G", "L", "G", "S", "V">>), "GSV" >>,
       << S(<<"G", "N", "G", "S", "V">>), "GSV" >>,
       << S(<<"G", "P", "G", "S", "V">>), "GSV" >>,
       << S(<<"G", "L", "H", "D", "T">>), "HDT" >>,
       << S(<<"G", "N", "H", "D", "T">>), "HDT" >>,
       << S(<<"G", "P", "H", "D", "T">>), "HDT" >>,
       << S(<<"G", "L", "R", "0", "0">>), "R00" >>,
       << S(<<"G", "N", "R", "0", "0">>), "R00" >>,
       << S(<<"G", "P", "R", "0", "0">>), "R00" >>,
       << S(<<"G", "L", "R", "M", "A">>), "RMA" >>,
       << S(<<"G", "N", "R", "M", "A">>), "RMA" >>,
       << S(<<"G", "P", "R", "M", "A">>), "RMA" >>,
       << S(<<"G", "L", "R", "M", "B">>), "RMB" >>,
       << S(<<"G", "N", "R", "M", "B">>), "RMB" >>,
       << S(<<"G", "P", "R", "M", "B">>), "RMB" >>,
       << S(<<"G", "L", "R", "M", "C">>), "RMC" >>,
       << S(<<"G", "N", "R", "M", "C">>), "RMC" >>,
       << S(<<"G", "P", "R", "M", "C">>), "RMC" >>,
       << S(<<"G", "L", "S", "T", "N">>), "STN" >>,
       << S(<<"G", "N", "S", "T", "N">>), "STN" >>,
       << S(<<"G", "P", "S", "T", "N">>), "STN" >>,
       << S(<<"G", "L", "T", "H", "S">>), "THS" >>,
       << S(<<"G", "N", "T", "H", "S">>), "THS" >>,
       << S(<<"G", "P", "T", "H", "S">>), "THS" >>,
       << S(<<"G", "L", "T", "R", "F">>), "TRF" >>,
       << S(<<"G", "N", "T", "R", "F">>), "TRF" >>,
       << S(<<"G", "P", "T", "R", "F">>), "TRF" >>,
       << S(<<"G", "L", "V", "B", "W">>), "VBW" >>,
       << S(<<"G", "N", "V", "B", "W">>), "VBW" >>,
       << S(<<"G", "P", "V", "B", "W">>), "VBW" >>,
       << S(<<"G", "L", "V", "T", "G">>), "VTG" >>,
       << S(<<"G", "N", "V", "T", "G">>), "VTG" >>,
       << S(<<"G", "P", "V", "T", "G">>), "VTG" >>,
       << S(<<"G", "L", "W", "P", "L">>), "WPL" >>,
       << S(<<"G", "N", "W", "P", "L">>), "WPL" >>,
       << S(<<"G", "P", "W", "P", "L">>), "WPL" >>,
       << S(<<"G", "L", "X", "T", "E">>), "XTE" >>,
       << S(<<"G", "N", "X", "T", "E">>), "XTE" >>,
       << S(<<"G", "P", "X", "T", "E">>), "XTE" >>,
       << S(<<"G", "L", "Z", "D", "A">>), "ZDA" >>,
       << S(<<"G", "N", "Z", "D", "A">>), "ZDA" >>,
       << S(<<"G", "P", "Z", "D", "A">>), "ZDA" >>,
       << S(<<"P", "G", "R", "M", "E">>), "RME" >>,
       << S(<<"P", "G", "R", "M", "M">>), "RMM" >>,
       << S(<<"P", "G", "R", "M", "Z">>), "RMZ" >>,
       << S(<<"P", "S", "L", "I", "B">>), "LIB" >>
    }

\* Struct types a user of the package may define and decode into: a field
\* whose tag names no method, a Type tag that is a single '/', and a Type
\* field that is not a string.
UnknownTag ==
    << Fld("Type", S(<<"G", "P", "B", "O", "D">>), "string"),
       Fld("Name", S(<<"t", "e", "x", "t">>), "string") >>
SlashType == << Fld("Type", S(<<"/">>), "string") >>
IntType   == << Fld("Type", S(<<"G", "P", "B", "O", "D">>), "int") >>

\* More of them: a struct without a Type field, a Type tag that opens a
\* pattern and does not close it, and a Type tag whose pattern does not
\* compile.
NoType ==
    << Fld("Talker", tagString, "string"),
       Fld("Count", tagNumber, "int") >>
OpenPattern == << Fld("Type", S(<<"/", "G", "P">>), "string") >>
BadPattern  == << Fld("Type", S(<<"/", "[", "G", "/">>), "string") >>

UserTypes == {"UnknownTag", "SlashType", "IntType", "NoType", "OpenPattern", "BadPattern"}

\* Every struct type of the model, by name.
structs ==
    [BOD |-> BOD, BWC |-> BWC, GLL |-> GLL, GGA |-> GGA, GSA |-> GSA, GSV |-> GSV,
     HDT |-> HDT, R00 |-> R00, RMA |-> RMA, RMB |-> RMB, RMC |-> RMC, TRF |-> TRF,
     STN |-> STN, VBW |-> VBW, VTG |-> VTG, WPL |-> WPL, XTE |-> XTE, ZDA |-> ZDA,
     RME |-> RME, RMM |-> RMM, RMZ |-> RMZ, LIB |-> LIB, GNS |-> GNS, THS |-> THS,
     VDMVDO |-> VDMVDO,
     UnknownTag |-> UnknownTag, SlashType |-> SlashType, IntType |-> IntType,
     NoType |-> NoType, OpenPattern |-> OpenPattern, BadPattern |-> BadPattern]

\* rv.NumField() and rt.Field(i), i counted from 0 as in the code.
NumField(typ) == Len(structs[typ])
FieldAt(typ, i) == structs[typ][i + 1]

\* reflect.New(typ).Elem(): a zero value of the struct type.
ZeroStruct(typ) ==
    [typ |-> typ, val |-> [i \in 1..NumField(typ) |-> Zero(structs[typ][i].kind)]]

-----------------------------------------------------------------------------
(* regexp, for the patterns a Type tag may hold *)

\* regexp.Compile on the syntax the package's tags use: literal letters and
\* digits, '.', and a class [abc] of literal characters.  An unclosed class
\* does not compile.  The result is the sequence of one character matchers.
RECURSIVE Compile(_)
Compile(p) ==
    IF p = << >> THEN [ok |-> TRUE, atoms |-> << >>]
    ELSE IF p[1] = Ord("[") THEN
        LET k == Index(Tail(p), Ord("]")) IN
        IF k < 1 THEN [ok |-> FALSE, atoms |-> << >>]
        ELSE LET rest == Compile(SubSeq(p, k + 3, Len(p))) IN
             [ok |-> rest.ok,
              atoms |-> << [dot |-> FALSE, set |-> {p[j] : j \in 2..(k + 1)}] >>
                        \o rest.atoms]
    ELSE LET rest == Compile(Tail(p)) IN
         [ok |-> rest.ok,
          atoms |-> << IF p[1] = Ord(".") THEN [dot |-> TRUE, set |-> {}]
                       ELSE [dot |-> FALSE, set |-> {p[1]}] >> \o rest.atoms]

\* Whether one matcher accepts a byte: '.' accepts everything but newline.
AtomMatches(a, b) == IF a.dot THEN b # 10 ELSE b \in a.set

\* The pattern matches a prefix of s.
RECURSIVE MatchHere(_, _)
MatchHere(atoms, s) ==
    IF atoms = << >> THEN TRUE
    ELSE IF s = << >> THEN FALSE
    ELSE AtomMatches(Head(atoms), Head(s)) /\ MatchHere(Tail(atoms), Tail(s))

\* A match that must start at the first byte of s.
MatchString_Anchored(atoms, s) == MatchHere(atoms, s)

\* re.MatchString(s): the leftmost match is searched from every position.
RECURSIVE MatchString(_, _)
MatchString(atoms, s) ==
    IF MatchHere(atoms, s) THEN TRUE
    ELSE IF s = << >> THEN FALSE
    ELSE MatchString(atoms, Tail(s))

-----------------------------------------------------------------------------
(* The decoder *)

\* checksum: the exclusive or of the bytes of s.
RECURSIVE checksumFrom(_, _)
checksumFrom(s, sum) ==
    IF s = << >> THEN sum ELSE checksumFrom(Tail(s), Xor(sum, Head(s)))

checksum(s) == checksumFrom(s, 0)

\* reflect's SetInt / SetUint: the value is cut to the width of the field.
\* (For the 32 and 64 bit kinds the sums of this model, -128..127, are
\* stored as they are.)
SetIntTo(kind, x) ==
    IF sizeOf[kind] \in {8, 16} /\ kind \in UintKinds THEN << x % (2 ^ sizeOf[kind]) >>
    ELSE << x >>

\* typeField that leaves the Type field alone when it rejects the token.
typeField_KeepOnReject(tag, kind, old, tok) ==
    LET accept == IF kind = "string" THEN Conv(NoError, tok) ELSE Conv(NoError, old)
    IN IF tag[1] = Ord("/") THEN
           IF tag[Len(tag)] # Ord("/") THEN Conv(ErrTypeSyntax, old)
           ELSE IF Len(tag) = 1 THEN Conv(Panic("slice bounds out of range [1:0]"), old)
           ELSE LET re == Compile(SubSeq(tag, 2, Len(tag) - 1)) IN
                IF ~re.ok THEN Conv(ErrTypeSyntax, old)
                ELSE IF ~MatchString(re.atoms, tok) THEN Conv(ErrNMEAType, old)
                ELSE accept
       ELSE IF tag # tok THEN Conv(ErrNMEAType, old)
       ELSE accept

\* What the Type branch of parseTo does with field 0: the error it returns
\* (NoError when the token is accepted) and the value of the field after.
\* f.SetString panics when the field is not a string.
typeField(tag, kind, old, tok) ==
    LET reject == IF kind = "string" THEN Conv(ErrNMEAType, tok)
                  ELSE Conv(Panic("reflect: call of SetString on non-string Value"), old)
        accept == IF kind = "string" THEN Conv(NoError, tok) ELSE Conv(NoError, old)
    IN IF tag[1] = Ord("/") THEN
           IF tag[Len(tag)] # Ord("/") THEN Conv(ErrTypeSyntax, old)
           ELSE IF Len(tag) = 1 THEN Conv(Panic("slice bounds out of range [1:0]"), old)
           ELSE LET re == Compile(SubSeq(tag, 2, Len(tag) - 1)) IN
                IF ~re.ok THEN Conv(ErrTypeSyntax, old)
                ELSE IF ~MatchString(re.atoms, tok) THEN reject
                ELSE accept
       ELSE IF tag # tok THEN reject
       ELSE accept

\* The checksum case of parseTo.
checksumField(kind, old, sum) ==
    IF kind \in IntKinds \cup UintKinds THEN Conv(NoError, SetIntTo(kind, sum))
    ELSE Conv(ErrType, old)

\* methodField with a field past the last token converted from the empty
\* string instead of skipped.
methodField_EmptyToken(tag, kind, old, fields, i) ==
    IF tag \notin methodTags THEN Conv(Panic("call of nil func"), old)
    ELSE methodFor(tag, kind, old, IF i >= Len(fields) THEN << >> ELSE fields[i + 1])

\* The default case of parseTo's switch for field i (counted from 0): a
\* field past the last token is skipped, any other is handed to the
\* method its tag names.  Calling the nil func of an unknown tag panics.
methodField(tag, kind, old, fields, i) ==
    IF i >= Len(fields) THEN Conv(NoError, old)
    ELSE IF tag \notin methodTags THEN Conv(Panic("call of nil func"), old)
    ELSE methodFor(tag, kind, old, fields[i + 1])

\* The loop of parseTo from field i on (i counted from 0), then the final
\* hasType check.  The result is the struct as written and the error.
\* parseField is the body of the loop for field i with descriptor fd;
\* typeDone and fieldDone are what follows the Type branch and the switch,
\* r being the error and the value of the field after them.
RECURSIVE parseToFrom(_, _, _, _, _)
RECURSIVE parseField(_, _, _, _, _, _)
RECURSIVE typeDone(_, _, _, _, _)
RECURSIVE fieldDone(_, _, _, _, _, _)

\* fieldDone that goes on to the next field after a converter's error.
fieldDone_IgnoreError(rv, fields, sum, i, hasType, r) ==
    parseToFrom(IF r.err # NoError THEN rv ELSE [rv EXCEPT !.val[i + 1] = r.val],
                fields, sum, i + 1, hasType)

\* parseToFrom without the final hasType check.
parseToFrom_NoTypeCheck(rv, fields, sum, i, hasType) ==
    IF i >= NumField(rv.typ)
    THEN [rv |-> rv, err |-> NoError]
    ELSE parseField(rv, fields, sum, i, hasType, FieldAt(rv.typ, i))

parseToFrom(rv, fields, sum, i, hasType) ==
    IF i >= NumField(rv.typ)
    THEN [rv |-> rv, err |-> IF ~hasType THEN ErrMissingType ELSE NoError]
    ELSE parseField(rv, fields, sum, i, hasType, FieldAt(rv.typ, i))

parseField(rv, fields, sum, i, hasType, fd) ==
    IF fd.tag = noTag THEN parseToFrom(rv, fields, sum, i + 1, hasType)
    ELSE IF fd.name = "Type" THEN
        IF i # 0 THEN [rv |-> rv, err |-> ErrLateType]
        ELSE typeDone(rv, fields, sum, i,
                      typeField(fd.tag, fd.kind, rv.val[i + 1], fields[i + 1]))
    ELSE IF fd.tag = tagChecksum
    THEN fieldDone(rv, fields, sum, i, hasType,
                   checksumField(fd.kind, rv.val[i + 1], sum))
    ELSE fieldDone(rv, fields, sum, i, hasType,
                   methodField(fd.tag, fd.kind, rv.val[i + 1], fields, i))

typeDone(rv, fields, sum, i, r) ==
    IF r.err # NoError THEN [rv |-> [rv EXCEPT !.val[i + 1] = r.val], err |-> r.err]
    ELSE parseToFrom([rv EXCEPT !.val[i + 1] = r.val], fields, sum, i + 1, TRUE)

fieldDone(rv, fields, sum, i, hasType, r) ==
    IF r.err # NoError THEN [rv |-> [rv EXCEPT !.val[i + 1] = r.val], err |-> r.err]
    ELSE parseToFrom([rv EXCEPT !.val[i + 1] = r.val], fields, sum, i + 1, hasType)

\* parseTo that turns away a sentence with more tokens than the struct has
\* fields.
parseTo_NoExtraTokens(rv, fields, sum) ==
    IF Len(fields) > NumField(rv.typ) THEN [rv |-> rv, err |-> ErrType]
    ELSE parseToFrom(rv, fields, sum, 0, FALSE)

parseTo(rv, fields, sum) == parseToFrom(rv, fields, sum, 0, FALSE)

\* A destination handed to ParseTo: what kind of value dst is, and the
\* struct it is or points to.
PtrStruct == "ptr to struct"
NonPtr    == "struct"
PtrOther  == "ptr to non-struct"

\* The envelope checks ParseTo and Parse begin with (lines 463-480 and
\* 584-601), and the split into tokens: the sigil is cut off, the text
\* after the first '*' is parsed as the checksum wanted, and the checksum
\* of the text before it is computed.  err is NoError when all pass.
\* envelopeAt is given the text after the sigil and the index of the '*',
\* envelopeSum the text before the '*' and the parsed checksum.
envelopeSum(s2, want) ==
    IF want.err # NoError
    THEN [err |-> want.err, fields |-> << >>, sum |-> 0, wantSum |-> 0]
    ELSE [err |-> NoError, fields |-> Split(s2, Ord(",")),
          sum |-> checksum(s2), wantSum |-> want.val]

envelopeAt(s1, sumMarkIdx) ==
    IF sumMarkIdx = -1
    THEN [err |-> NoError, fields |-> Split(s1, Ord(",")), sum |-> 0, wantSum |-> 0]
    ELSE envelopeSum(SubSeq(s1, 1, sumMarkIdx),
                     ParseInt(SubSeq(s1, sumMarkIdx + 2, Len(s1)), 16, 8))

\* parseEnvelope with the two checks in the other order.
parseEnvelope_SigilFirst(s) ==
    IF s # << >> /\ s[1] # Ord("$") /\ s[1] # Ord("!")
    THEN [err |-> ErrNoSigil, fields |-> << >>, sum |-> 0, wantSum |-> 0]
    ELSE IF Len(s) < 6
    THEN [err |-> ErrTooShort, fields |-> << >>, sum |-> 0, wantSum |-> 0]
    ELSE envelopeAt(Tail(s), Index(Tail(s), Ord("*")))

parseEnvelope(s) ==
    IF Len(s) < 6 THEN [err |-> ErrTooShort, fields |-> << >>, sum |-> 0, wantSum |-> 0]
    ELSE IF s[1] # Ord("$") /\ s[1] # Ord("!")
    THEN [err |-> ErrNoSigil, fields |-> << >>, sum |-> 0, wantSum |-> 0]
    ELSE envelopeAt(Tail(s), Index(Tail(s), Ord("*")))

\* What ParseTo returns after parseTo has returned r (lines 492-495): a
\* checksum that differs is reported in place of the decoder's error.  d
\* is the destination, with the struct as parseTo left it.
checked(d, r, sum, wantSum) ==
    [err |-> IF r.err.kind # "panic" /\ sum # wantSum THEN ErrChecksum ELSE r.err,
     dst |-> [d EXCEPT !.rv = r.rv]]

\* finishParseTo as the first version of the package had it: a checksum
\* that differs is reported before anything is decoded.
finishParseTo_ChecksumFirst(d, fields, sum, wantSum) ==
    IF sum # wantSum THEN [err |-> ErrChecksum, dst |-> d]
    ELSE checked(d, parseTo(d.rv, fields, wantSum), 0, 0)

\* finishParseTo without the comparison of the two checksums.
finishParseTo_NoCompare(d, fields, sum, wantSum) ==
    checked(d, parseTo(d.rv, fields, wantSum), 0, 0)

\* finishParseTo that decodes only when token 0 is a key of the registry
\* as it is at the time of the call.
finishParseTo_ReadsRegistry(d, fields, sum, wantSum) ==
    IF fields[1] \notin DOMAIN registry THEN [err |-> ErrNotRegistered, dst |-> d]
    ELSE checked(d, parseTo(d.rv, fields, wantSum), sum, wantSum)

\* finishParseTo handing parseTo the checksum computed from the text in
\* place of the declared one.
finishParseTo_ComputedSum(d, fields, sum, wantSum) ==
    checked(d, parseTo(d.rv, fields, sum), sum, wantSum)

\* The end of ParseTo (lines 491-495): the fields are decoded, then the
\* checksums are compared.
finishParseTo(d, fields, sum, wantSum) ==
    checked(d, parseTo(d.rv, fields, wantSum), sum, wantSum)

\* ParseTo after the envelope checks (lines 482-495), e being what they
\* gave.
parseToDst(d, e) ==
    IF e.err # NoError THEN [err |-> e.err, dst |-> d]
    ELSE IF d.kind = NonPtr THEN [err |-> ErrNotPointer, dst |-> d]
    ELSE IF d.kind # PtrStruct THEN [err |-> ErrNotStruct, dst |-> d]
    ELSE finishParseTo(d, e.fields, e.sum, e.wantSum)

\* ParseTo(dst, sentence): the error returned and the destination afterwards.
ParseTo(d, s) == parseToDst(d, parseEnvelope(s))

\* The nil interface value Parse returns beside some errors.
NilRecord == [typ |-> "nil", val |-> << >>]

\* A lookup that reads the registry as the package initialised it.
lookup_Initial(reg, key) ==
    IF key \in {e[1] : e \in registryLiteral}
    THEN [ok |-> TRUE,
          dst |-> [kind |-> "struct",
                   typ |-> (CHOOSE e \in registryLiteral : e[1] = key)[2]]]
    ELSE [ok |-> FALSE, dst |-> [kind |-> "nil", typ |-> "nil"]]

\* dst, ok := registry[key], read under the read lock (lines 605-607).
lookup(reg, key) ==
    IF key \in DOMAIN reg THEN [ok |-> TRUE, dst |-> reg[key]]
    ELSE [ok |-> FALSE, dst |-> [kind |-> "nil", typ |-> "nil"]]

\* What Parse returns after parseTo has returned r (lines 618-621).
checkedRecord(r, sum, wantSum) ==
    [rec |-> r.rv,
     err |-> IF r.err.kind # "panic" /\ sum # wantSum THEN ErrChecksum ELSE r.err]

\* finishParse as the first version of the package had it: no record is
\* returned beside an error.
finishParse_NilOnError(v, fields, sum, wantSum) ==
    IF v.kind # "struct" THEN [rec |-> NilRecord, err |-> ErrNotStruct]
    ELSE LET r == checkedRecord(parseTo(ZeroStruct(v.typ), fields, wantSum),
                                sum, wantSum)
         IN [rec |-> IF r.err = NoError THEN r.rec ELSE NilRecord, err |-> r.err]

\* finishParse that returns a fresh zero struct beside an error, without
\* the fields written before decoding failed.
finishParse_ZeroOnError(v, fields, sum, wantSum) ==
    IF v.kind # "struct" THEN [rec |-> NilRecord, err |-> ErrNotStruct]
    ELSE LET r == checkedRecord(parseTo(ZeroStruct(v.typ), fields, wantSum),
                                sum, wantSum)
         IN [rec |-> IF r.err = NoError THEN r.rec ELSE ZeroStruct(v.typ), err |-> r.err]

\* The end of Parse (lines 612-621) for the value v the lookup found: a
\* fresh struct of its type is decoded into and returned, with the error.
finishParse(v, fields, sum, wantSum) ==
    IF v.kind # "struct" THEN [rec |-> NilRecord, err |-> ErrNotStruct]
    ELSE checkedRecord(parseTo(ZeroStruct(v.typ), fields, wantSum), sum, wantSum)

\* Parse after the lookup (lines 608-621), l being what it gave.
parseFound(e, l) ==
    IF ~l.ok
    THEN [rec |-> NilRecord, err |-> ErrNotRegistered, looked |-> TRUE, ok |-> FALSE]
    ELSE finishParse(l.dst, e.fields, e.sum, e.wantSum)
             @@ [looked |-> TRUE, ok |-> TRUE]

\* Parse after the envelope checks (lines 603-621), e being what they gave.
parseLookup(e, reg) ==
    IF e.err # NoError
    THEN [rec |-> NilRecord, err |-> e.err, looked |-> FALSE, ok |-> FALSE]
    ELSE parseFound(e, lookup(reg, e.fields[1]))

\* Parse(sentence) with the registry as it is when the lookup is made: the
\* record and the error returned, whether the lookup was reached (looked)
\* and whether it found the key (ok).
Parse(s, reg) == parseLookup(parseEnvelope(s), reg)

\* The registry as the package initialises it.
DefaultRegistry ==
    [k \in {e[1] : e \in registryLiteral} |->
        [kind |-> "struct", typ |-> (CHOOSE e \in registryLiteral : e[1] = k)[2]]]

-----------------------------------------------------------------------------
(* The sentences and destinations the decoder is applied to *)

\* The most tokens that follow token 0 in a generated sentence.
MaxTokens == 2

\* Token 0 of the generated sentences: registered keys whose struct takes
\* them, a registered key its struct does not take (GLBOD), and keys that
\* are not registered, one of which contains a match of THS's pattern.
Token0s ==
    { S(<< "G", "P", "B", "O", "D" >>),
      S(<< "G", "L", "B", "O", "D" >>),
      S(<< "G", "N", "G", "N", "S" >>),
      S(<< "G", "P", "T", "H", "S" >>),
      S(<< "X", "G", "P", "T", "H", "S" >>),
      S(<< "G", "P", "X", "X", "X" >>) }

\* The tokens that follow: empty, a number, a letter, a time of day.
Tokens ==
    { << >>,
      S(<< "1" >>),
      S(<< "T" >>),
      S(<< "2", "2", "5", "4", "4", "4" >>) }

\* Every sequence over set of length at most n.
RECURSIVE SeqsUpTo(_, _)
SeqsUpTo(set, n) ==
    IF n = 0 THEN { << >> }
    ELSE LET shorter == SeqsUpTo(set, n - 1) IN
         shorter \cup { Append(q, t) : q \in {x \in shorter : Len(x) = n - 1}, t \in set }

\* strings.Join(tokens, ",")
RECURSIVE Join(_)
Join(toks) ==
    IF Len(toks) = 1 THEN toks[1]
    ELSE toks[1] \o << Ord(",") >> \o Join(Tail(toks))

HexDigits == S(<< "0", "1", "2", "3", "4", "5", "6", "7", "8", "9",
                  "A", "B", "C", "D", "E", "F" >>)

\* "*HH" for a byte value.
Star(n) == << Ord("*"), HexDigits[(n \div 16) + 1], HexDigits[(n % 16) + 1] >>

\* The exclusive or of all bytes of s, bit by bit: bit b of the result is
\* set when an odd number of the bytes have bit b set.
OnesAt(s, b) == Cardinality({ i \in 1..Len(s) : BitOf(s[i], b) = 1 })
XorAll(s) ==
    (OnesAt(s, 0) % 2) + 2 * (OnesAt(s, 1) % 2) + 4 * (OnesAt(s, 2) % 2)
    + 8 * (OnesAt(s, 3) % 2) + 16 * (OnesAt(s, 4) % 2) + 32 * (OnesAt(s, 5) % 2)
    + 64 * (OnesAt(s, 6) % 2) + 128 * (OnesAt(s, 7) % 2)

\* The parts of a sentence text <sigil>T or <sigil>T*HH: T, whether there
\* is a '*', the text after the first '*', the value it declares, and the
\* tokens of T.
HasSum(s)   == Index(Tail(s), Ord("*")) # -1
Body(s)     == IF HasSum(s) THEN SubSeq(s, 2, Index(Tail(s), Ord("*")) + 1) ELSE Tail(s)
Suffix(s)   == SubSeq(s, Index(Tail(s), Ord("*")) + 3, Len(s))
Declared(s) == ParseInt(Suffix(s), 16, 8)
TokensOf(s) == Split(Body(s), Ord(","))
Token0(s)   == TokensOf(s)[1]

\* The sentence passes the envelope checks: length, sigil, and a checksum
\* suffix that parses when there is one.
EnvelopeOK(s) ==
    /\ Len(s) >= 6
    /\ s[1] \in {Ord("$"), Ord("!")}
    /\ (HasSum(s) => Declared(s).err = NoError)

\* The sentence passes the envelope checks and declares a checksum that is
\* not the exclusive or of the bytes of T.
Mismatch(s) == EnvelopeOK(s) /\ HasSum(s) /\ Declared(s).val # XorAll(Body(s))

\* A sentence text: sigil, tokens, and a checksum suffix that is absent,
\* right, or wrong in one bit.
Text(sigil, toks, suffix) ==
    LET body == Join(toks) IN
    << sigil >> \o body \o
        (IF suffix = "none" THEN << >>
         ELSE IF suffix = "good" THEN Star(XorAll(body))
         ELSE Star(Xor(XorAll(body), 1)))

\* The same sentence with the checksum suffix put right.
Clean(s) == << s[1] >> \o Body(s) \o Star(XorAll(Body(s)))

TokenLists == { << t0 >> \o rest : t0 \in Token0s, rest \in SeqsUpTo(Tokens, MaxTokens) }

CoreSentences ==
    { Text(Ord("$"), toks, suffix) : toks \in TokenLists, suffix \in {"none", "good", "bad"} }

\* One sentence for every key of the default registry, token 0 alone, once
\* with the right checksum and once with a wrong one.
KeySentences ==
    { Text(IF k[1] = Ord("A") THEN Ord("!") ELSE Ord("$"), << k >>, suffix) :
        k \in DOMAIN DefaultRegistry, suffix \in {"good", "bad"} }

\* Sentences the envelope checks turn away, or nearly.
EnvelopeSentences ==
    { << >>,
      S(<< "$", "G", "P", "*", "1", "7" >>),
      S(<< "$", "G", "P", "B", "O" >>),
      S(<< "G", "P", "B", "O", "D" >>),
      S(<< "G", "P", "B", "O", "D", ",", "1" >>),
      S(<< "#", "G", "P", "B", "O", "D", "*", "4", "8" >>),
      S(<< "$", "G", "P", "B", "O", "D", "*" >>),
      S(<< "$", "G", "P", "B", "O", "D", "*", "Z", "Z" >>),
      S(<< "$", "G", "P", "B", "O", "D", "*", "F", "F" >>),
      S(<< "$", "G", "P", "B", "O", "D", "*", "4", "8", "0" >>),
      S(<< "$", "G", "P", "B", "O", "D", "*", "-", "1" >>),
      S(<< "!", "G", "P", "B", "O", "D", "*", "5", "b" >>) }

\* The bytes a corrupted sentence gets in place of one of its own.
CorruptBytes == { Ord("*"), Ord(","), Ord("X") }

\* The sentences made from s by replacing one byte between the sigil and
\* the '*' by a different byte of the given set, the checksum left as it was.
Corruptions(s, bytes) ==
    UNION { { [s EXCEPT ![i] = b] : b \in bytes \ {s[i]} } :
              i \in 2..Index(s, Ord("*")) }

\* The sentences with a right checksum that are corrupted: token 0 and at
\* most one more token.
CorruptionBases ==
    { Text(Ord("$"), toks, "good") : toks \in { q \in TokenLists : Len(q) <= 2 } }

\* Corrupted by a '*', and by another byte.
StarCorrupted  == UNION { Corruptions(s, {Ord("*")}) : s \in CorruptionBases }
OtherCorrupted == UNION { Corruptions(s, CorruptBytes \ {Ord("*")}) : s \in CorruptionBases }

CorruptedSentences == StarCorrupted \cup OtherCorrupted

\* Latitude tokens: the value of the tests, its negative, negatives that
\* are and are not whole hundreds, zero, a signed fraction and a letter.
LatLonTokens ==
    { S(<< "4", "9", "1", "7", ".", "2", "4" >>),
      S(<< "-", "4", "9", "1", "7", ".", "2", "4" >>),
      S(<< "-", "1", "5", "0" >>),
      S(<< "-", "2", "0", "0" >>),
      S(<< "0" >>),
      S(<< "+", "7", ".", "5" >>),
      S(<< "N" >>) }

\* Sentences that reach the Latitude field of GLL (token 1) and of GNS
\* (token 2, after a time of day).
LatLonSentences ==
    { Text(Ord("$"), << S(<< "G", "P", "G", "L", "L" >>), t >>, suffix) :
        t \in LatLonTokens, suffix \in {"none", "good"} }
    \cup
    { Text(Ord("$"), << S(<< "G", "N", "G", "N", "S" >>),
                        S(<< "2", "2", "5", "4", "4", "4" >>), t >>, suffix) :
        t \in LatLonTokens, suffix \in {"none", "good"} }

\* Sentences that reach the Time and Date fields of TRF: with the token
\* missing, empty, well formed and malformed.
DateSentences ==
    { Text(Ord("$"), toks, suffix) :
        toks \in { << S(<< "G", "P", "T", "R", "F" >>) >> \o rest :
                     rest \in { << << >> >>,
                                << S(<< "2", "2", "5", "4", "4", "4" >>) >>,
                                << S(<< "2", "2", "5", "4", "4", "4" >>), << >> >>,
                                << S(<< "2", "2", "5", "4", "4", "4" >>),
                                   S(<< "0", "4", "0", "3", "1", "9" >>) >>,
                                << S(<< "2", "2", "5", "4", "4", "4" >>), S(<< "T" >>) >> } },
        suffix \in {"none", "good", "bad"} }

\* Sentences for STN, a struct of two fields, with a token past its last
\* field.
ExtraSentences ==
    { Text(Ord("$"), toks, suffix) :
        toks \in { << S(<< "G", "P", "S", "T", "N" >>) >> \o rest :
                     rest \in { << S(<< "1" >>) >>,
                                << S(<< "1" >>), S(<< "T" >>) >>,
                                << S(<< "1" >>), << >> >>,
                                << S(<< "T" >>), S(<< "T" >>) >> } },
        suffix \in {"none", "good", "bad"} }

Sentences ==
    CoreSentences \cup KeySentences \cup EnvelopeSentences \cup CorruptedSentences
    \cup LatLonSentences \cup DateSentences \cup ExtraSentences

\* A value that is not the zero value, for a field of the given kind.
Stale(kind) ==
    IF kind \in IntKinds \cup UintKinds THEN << 7 >>
    ELSE IF kind \in FloatKinds THEN << 7, 2 >>
    ELSE IF kind = "time" THEN << 2019, 3, 4, 5, 6, 7, 0 >>
    ELSE IF kind = "string" THEN S(<< "Z", "Z" >>)
    ELSE << >>

\* A struct left over from earlier use: no field holds its zero value.
StaleStruct(typ) ==
    [typ |-> typ, val |-> [i \in 1..NumField(typ) |-> Stale(structs[typ][i].kind)]]

\* The struct types ParseTo is given destinations of.
DstTypes == {"BOD", "GNS", "THS", "STN"}

\* The destinations handed to ParseTo: pointers to fresh and to used
\* structs, a struct passed by value, and a pointer to something else.
Destinations ==
    { [kind |-> PtrStruct, rv |-> ZeroStruct(t)] : t \in DstTypes \cup {"TRF"} }
    \cup { [kind |-> PtrStruct, rv |-> StaleStruct(t)] : t \in DstTypes \cup {"TRF"} }
    \cup { [kind |-> NonPtr, rv |-> ZeroStruct("BOD")],
           [kind |-> PtrOther, rv |-> NilRecord] }

-----------------------------------------------------------------------------
(* Idle values of the variables a specification does not use *)

NoCall == [op |-> "none", err |-> NoError, before |-> [kind |-> PtrOther, rv |-> NilRecord],
           rec |-> NilRecord, looked |-> FALSE, ok |-> FALSE]

DecodeIdle == sentence = << >> /\ dst = [kind |-> PtrOther, rv |-> NilRecord] /\ ret = NoCall
RegIdle    == lastReg = << >> /\ regRet = << >>
ConcIdle   == lock = << >> /\ procs = << >>
AISIdle    == ais = << >>

-----------------------------------------------------------------------------
(* Spec: the two decode entry points applied to a sentence *)

Init ==
    /\ sentence \in Sentences
    /\ dst \in Destinations
    /\ ret = NoCall
    /\ registry = DefaultRegistry
    /\ RegIdle /\ ConcIdle /\ AISIdle

\* ParseTo returns r: the destination is as the call left it.
ParseToReturns(r) ==
    /\ dst' = r.dst
    /\ ret' = [op |-> "ParseTo", err |-> r.err, before |-> dst,
               rec |-> NilRecord, looked |-> FALSE, ok |-> FALSE]

\* err := ParseTo(dst, sentence)
CallParseTo ==
    /\ ret.op = "none"
    /\ ParseToReturns(ParseTo(dst, sentence))
    /\ UNCHANGED <<sentence, registry, lastReg, regRet, lock, procs, ais>>

\* rec, err := Parse(sentence)
CallParse ==
    /\ ret.op = "none"
    /\ ret' = Parse(sentence, registry) @@ [op |-> "Parse", before |-> dst]
    /\ UNCHANGED <<sentence, dst, registry, lastReg, regRet, lock, procs, ais>>

Next == CallParseTo \/ CallParse

Spec == Init /\ [][Next]_vars

-----------------------------------------------------------------------------
(* Properties of the decoder, checked under Spec *)

\* The tag of the Type field of a struct type, and what that tag accepts:
\* a literal tag accepts the token equal to it, a tag /re/ accepts every
\* token that has a substring the pattern re matches in full.
TypeTag(typ) == structs[typ][1].tag

Accepts(tag, tok) ==
    IF tag[1] = Ord("/")
    THEN LET atoms == Compile(SubSeq(tag, 2, Len(tag) - 1)).atoms
             n == Len(atoms)
         IN \E k \in 0..(Len(tok) - n) :
                \A j \in 1..n : AtomMatches(atoms[j], tok[k + j])
    ELSE tag = tok

\* got is clean but for the checksum fields: a checksum field was either
\* written by neither decode (both still hold the old value) or holds the
\* declared value in got and the computed one in clean.
SameButChecksum(got, clean, old, declared, computed) ==
    /\ got.typ = clean.typ
    /\ \A i \in 1..NumField(got.typ) :
          LET fd == structs[got.typ][i] IN
          IF fd.tag = tagChecksum
          THEN \/ got.val[i] = old.val[i] /\ clean.val[i] = old.val[i]
               \/ /\ got.val[i] = SetIntTo(fd.kind, declared)
                  /\ clean.val[i] = SetIntTo(fd.kind, computed)
          ELSE got.val[i] = clean.val[i]

\* C1: when the declared checksum HH parses but differs from the exclusive
\* or of the bytes of T, ParseTo (into a pointer to a struct) and Parse (of
\* a registered token 0) return ErrChecksum, and the destination, or the
\* record Parse returns, is what decoding the same T with the matching
\* checksum gives, except that checksum fields hold the declared HH.
ChecksumAfterDecode ==
    (Mismatch(sentence) /\ XorAll(Body(sentence)) < 128) =>
        LET declared == Declared(sentence).val
            computed == XorAll(Body(sentence))
        IN
        /\ (ret.op = "ParseTo" /\ ret.before.kind = PtrStruct) =>
              /\ ret.err = ErrChecksum
              /\ SameButChecksum(dst.rv, ParseTo(ret.before, Clean(sentence)).dst.rv,
                                 ret.before.rv, declared, computed)
        /\ (ret.op = "Parse" /\ Token0(sentence) \in DOMAIN registry) =>
              /\ ret.err = ErrChecksum
              /\ ret.rec # NilRecord
              /\ SameButChecksum(ret.rec, Parse(Clean(sentence), registry).rec,
                                 ZeroStruct(registry[Token0(sentence)].typ),
                                 declared, computed)

\* Parse has returned ErrChecksum together with a BOD record whose True
\* field was decoded from the token "1" and whose Checksum field holds the
\* declared, wrong, value.
ChecksumAfterDecodeSeen ==
    /\ ret.op = "Parse"
    /\ Mismatch(sentence)
    /\ ret.err = ErrChecksum
    /\ ret.rec.typ = "BOD"
    /\ ret.rec.val[2] = << 1, 1 >>
    /\ ret.rec.val[NumField("BOD")] = << Declared(sentence).val >>

\* C2 as stated: replacing any one byte of T by a different byte, HH left
\* as it was, makes ParseTo and Parse return ErrChecksum.
CorruptionIsChecksumError ==
    sentence \in CorruptedSentences =>
        /\ (ret.op = "ParseTo" /\ ret.before.kind = PtrStruct) => ret.err = ErrChecksum
        /\ (ret.op = "Parse") => ret.err = ErrChecksum

\* C2: replacing one byte of T by a different byte other than '*', HH left
\* as it was, makes ParseTo (into a pointer to a struct) return
\* ErrChecksum; Parse returns ErrChecksum when token 0 of the corrupted
\* sentence is registered and ErrNotRegistered when it is not.  A '*' put
\* in place of a byte of T makes both return the error of parsing the text
\* after it as a number.
CorruptionDetected ==
    /\ sentence \in OtherCorrupted =>
          /\ (ret.op = "ParseTo" /\ ret.before.kind = PtrStruct) => ret.err = ErrChecksum
          /\ (ret.op = "Parse") =>
                ret.err = IF Token0(sentence) \in DOMAIN registry
                          THEN ErrChecksum ELSE ErrNotRegistered
    /\ (sentence \in StarCorrupted /\ ret.op \in {"ParseTo", "Parse"}) =>
          ret.err.kind = "NumError"

\* Parse has returned ErrChecksum for a sentence with a byte after token 0
\* replaced, and the record shows token 0 was still taken.
CorruptionDetectedSeen ==
    /\ sentence \in OtherCorrupted
    /\ ret.op = "Parse"
    /\ ret.err = ErrChecksum
    /\ ret.rec.typ = "BOD"
    /\ ret.rec.val[1] = S(<< "G", "P", "B", "O", "D" >>)
    /\ Len(TokensOf(sentence)) = 2

\* The case of C3: ParseTo has returned from a call with a pointer to a
\* struct and a sentence that passes the envelope checks, has no checksum
\* mismatch, has a token 0 the Type matcher accepts, has fewer tokens than
\* the struct has fields, and whose tokens after token 0 all convert.
ShortSentenceCase ==
    /\ ret.op = "ParseTo"
    /\ ret.before.kind = PtrStruct
    /\ EnvelopeOK(sentence)
    /\ ~Mismatch(sentence)
    /\ Accepts(TypeTag(dst.rv.typ), Token0(sentence))
    /\ Len(TokensOf(sentence)) < NumField(dst.rv.typ)
    /\ \A i \in 2..Len(TokensOf(sentence)) :
          LET fd == structs[dst.rv.typ][i] IN
          (fd.tag \in methodTags) =>
              (methodFor(fd.tag, fd.kind, ret.before.rv.val[i], TokensOf(sentence)[i]).err
                  = NoError)

\* The fields of C3: neither the Type field nor a checksum field, at a
\* position (counted from 0) not less than the number of tokens.
TrailingFields ==
    { i \in (Len(TokensOf(sentence)) + 1)..NumField(dst.rv.typ) :
        /\ structs[dst.rv.typ][i].name # "Type"
        /\ structs[dst.rv.typ][i].tag # tagChecksum }

\* C3 as stated: a sentence with fewer tokens than the struct has fields
\* decodes without error, and every trailing field holds the zero value of
\* its kind whatever the destination held before.
ShortSentenceZeroes ==
    ShortSentenceCase =>
        /\ ret.err = NoError
        /\ \A i \in TrailingFields :
              dst.rv.val[i] = Zero(structs[dst.rv.typ][i].kind)

\* C3: a sentence with fewer tokens than the struct has fields decodes
\* without error, and every trailing field holds what it held before the
\* call: the zero value when the destination was a fresh struct.
ShortSentenceKeeps ==
    ShortSentenceCase =>
        /\ ret.err = NoError
        /\ \A i \in TrailingFields : dst.rv.val[i] = ret.before.rv.val[i]
        /\ (ret.before.rv = ZeroStruct(dst.rv.typ)) =>
              \A i \in TrailingFields :
                  dst.rv.val[i] = Zero(structs[dst.rv.typ][i].kind)

\* ParseTo has decoded a two token sentence into a used BOD: True was
\* written from the token, Magnetic still holds the old value.
ShortSentenceKeepsSeen ==
    /\ ShortSentenceCase
    /\ ret.before.rv = StaleStruct("BOD")
    /\ Len(TokensOf(sentence)) = 2
    /\ ret.err = NoError
    /\ dst.rv.val[2] = << 1, 1 >>
    /\ dst.rv.val[4] = Stale("float64")
    /\ 4 \in TrailingFields

\* C4: for a Type field of kind string, token 0 is accepted exactly when a
\* literal tag equals it, or when a tag /re/ has a match of re somewhere
\* in it; an accepted token 0 is stored in the Type field.  (Seen on calls
\* without checksum mismatch, where the error of the decoder is returned.)
TypeMatcher ==
    (/\ ret.op = "ParseTo"
     /\ ret.before.kind = PtrStruct
     /\ EnvelopeOK(sentence)
     /\ ~Mismatch(sentence)) =>
        LET accepted == Accepts(TypeTag(dst.rv.typ), Token0(sentence)) IN
        /\ ((ret.err = ErrNMEAType) <=> ~accepted)
        /\ (accepted => dst.rv.val[1] = Token0(sentence))

\* ParseTo into a THS, whose tag is the pattern /..THS/, has accepted
\* XGPTHS, which the pattern matches from its second byte on.
TypeMatcherSeen ==
    /\ ret.op = "ParseTo"
    /\ ret.before.kind = PtrStruct
    /\ dst.rv.typ = "THS"
    /\ TypeTag("THS")[1] = Ord("/")
    /\ EnvelopeOK(sentence)
    /\ ~Mismatch(sentence)
    /\ Token0(sentence) = S(<< "X", "G", "P", "T", "H", "S" >>)
    /\ ret.err = NoError
    /\ dst.rv.val[1] = Token0(sentence)

\* C5 as stated: a sentence whose token 0 is a key of the default
\* registry, with the right checksum and no further tokens, is decoded by
\* Parse without error.
DefaultKeysDecode ==
    (/\ ret.op = "Parse"
     /\ registry = DefaultRegistry
     /\ EnvelopeOK(sentence)
     /\ HasSum(sentence)
     /\ ~Mismatch(sentence)
     /\ Len(TokensOf(sentence)) = 1
     /\ Token0(sentence) \in DOMAIN DefaultRegistry) =>
        /\ Accepts(TypeTag(DefaultRegistry[Token0(sentence)].typ), Token0(sentence))
        /\ ret.err = NoError

\* C9: when token 0 is registered with struct type S, Parse returns the
\* error and the record that ParseTo gives on a fresh zero S.
ParseIsParseToOnFresh ==
    (ret.op = "Parse" /\ ret.ok) =>
        LET v == registry[Token0(sentence)]
            p == ParseTo([kind |-> PtrStruct, rv |-> ZeroStruct(v.typ)], sentence)
        IN /\ v.kind = "struct"
           /\ ret.err = p.err
           /\ ret.rec = p.dst.rv

\* Parse has returned a GNS record together with the error of a token that
\* does not convert (the letter T for the time of day).
ParseIsParseToOnFreshSeen ==
    /\ ret.op = "Parse"
    /\ ret.ok
    /\ ret.rec.typ = "GNS"
    /\ ret.rec.val[1] = S(<< "G", "N", "G", "N", "S" >>)
    /\ ret.err.kind = "ParseError"
    /\ TokensOf(sentence)[2] = S(<< "T" >>)


\* The record a call returned or wrote: the destination of ParseTo, the
\* record of Parse.
Returned == IF ret.op = "ParseTo" THEN dst.rv ELSE ret.rec

\* The fields of a struct type that a given tag converts.
FieldsTagged(typ, tag) == { i \in 1..NumField(typ) : structs[typ][i].tag = tag }

\* floor(V/100) + (V - 100*floor(V/100))/60 for V = n/d, d > 0, as a
\* rational in lowest terms, and the negative of a rational.
FloorDegrees(n, d) == Rat(60 * d * (n \div (100 * d)) + (n - 100 * d * (n \div (100 * d))), 60 * d)
Neg(r) == << -r[1], r[2] >>

\* The value of decimal text: sign, digits, and digits after a point.
DecimalValue(tok) ==
    LET neg   == tok[1] = Ord("-")
        body  == IF tok[1] \in {Ord("-"), Ord("+")} THEN Tail(tok) ELSE tok
        dot   == Index(body, Ord("."))
        scale == IF dot = -1 THEN 0 ELSE Len(body) - dot - 1
        ds    == SelectSeq(body, IsDigit)
        m     == DigitsValue(ds, 10, 0)
    IN << IF neg THEN -m ELSE m, 10 ^ scale >>

IsDecimal(tok) ==
    /\ tok # << >>
    /\ LET body == IF tok[1] \in {Ord("-"), Ord("+")} THEN Tail(tok) ELSE tok IN
       /\ \E i \in 1..Len(body) : IsDigit(body[i])
       /\ \A i \in 1..Len(body) : IsDigit(body[i]) \/ body[i] = Ord(".")
       /\ Cardinality({ i \in 1..Len(body) : body[i] = Ord(".") }) <= 1

\* The latlon fields of the record returned for which the sentence has a
\* token, after a decode without error.
LatLonDecoded ==
    IF ret.op \in {"ParseTo", "Parse"} /\ ret.err = NoError
    THEN { i \in FieldsTagged(Returned.typ, tagLatLon) : i <= Len(TokensOf(sentence)) }
    ELSE {}

\* C14 as stated: a latlon token that is a decimal number V of either sign
\* is stored as floor(V/100) + (V - 100*floor(V/100))/60, an empty token
\* as 0.
LatLonFloor ==
    \A i \in LatLonDecoded :
        LET tok == TokensOf(sentence)[i] IN
        IF tok = << >> THEN Returned.val[i] = << 0, 1 >>
        ELSE IsDecimal(tok) =>
                Returned.val[i] = FloorDegrees(DecimalValue(tok)[1], DecimalValue(tok)[2])

\* C14: a latlon token that is a decimal number V is stored as
\* floor(V/100) + (V - 100*floor(V/100))/60 when V >= 0 and as the
\* negative of that value for -V when V < 0: the degrees are V/100 rounded
\* toward zero.  An empty token is stored as 0.
LatLonTruncates ==
    \A i \in LatLonDecoded :
        LET tok == TokensOf(sentence)[i] IN
        IF tok = << >> THEN Returned.val[i] = << 0, 1 >>
        ELSE IsDecimal(tok) =>
                LET v == DecimalValue(tok) IN
                Returned.val[i] = IF v[1] >= 0 THEN FloorDegrees(v[1], v[2])
                                  ELSE Neg(FloorDegrees(-v[1], v[2]))

\* Parse has decoded the latitude -4917.24 of a GLL sentence as
\* -(49 + 17.24/60) = -73931/1500.
LatLonTruncatesSeen ==
    /\ ret.op = "Parse"
    /\ ret.err = NoError
    /\ ret.rec.typ = "GLL"
    /\ Len(TokensOf(sentence)) = 2
    /\ TokensOf(sentence)[2] = S(<< "-", "4", "9", "1", "7", ".", "2", "4" >>)
    /\ ret.rec.val[2] = << -73931, 1500 >>

\* Two hexadecimal digits.
IsHexDigit(c) ==
    \/ (48 <= c /\ c <= 57) \/ (65 <= c /\ c <= 70) \/ (97 <= c /\ c <= 102)
TwoHexDigits(t) == Len(t) = 2 /\ IsHexDigit(t[1]) /\ IsHexDigit(t[2])

\* C15 as stated: when a sentence with a sigil and at least 6 bytes has a
\* '*', ParseTo and Parse fail with a number parse error exactly when the
\* text after the first '*' is not two hexadecimal digits, so every value
\* 00 through FF is accepted; when they fail so, nothing was decoded.
SuffixTwoHexDigits ==
    (/\ ret.op \in {"ParseTo", "Parse"}
     /\ Len(sentence) >= 6 /\ sentence[1] \in {Ord("$"), Ord("!")}
     /\ HasSum(sentence)) =>
        /\ ret.err.kind = "NumError" <=> ~TwoHexDigits(Suffix(sentence))
        /\ ret.err.kind = "NumError" =>
              /\ ret.op = "ParseTo" => dst = ret.before
              /\ ret.op = "Parse" => ret.rec = NilRecord

\* The decode of the call that returned went through every field: it
\* returned no error, or ErrChecksum where the same text with the matching
\* checksum decodes without error.
DecodedThrough ==
    /\ ret.op \in {"ParseTo", "Parse"}
    /\ \/ ret.err = NoError
       \/ /\ ret.err = ErrChecksum
          /\ Returned # NilRecord
          /\ ParseTo([kind |-> PtrStruct, rv |-> ZeroStruct(Returned.typ)],
                     Clean(sentence)).err = NoError

Untouched ==
    /\ ret.op = "ParseTo" => dst = ret.before
    /\ ret.op = "Parse" => (ret.rec = NilRecord /\ ~ret.looked)

\* C17: ParseTo and Parse return ErrTooShort for every sentence shorter
\* than 6 bytes, whatever its first byte, and ErrNoSigil for every
\* sentence of at least 6 bytes whose first byte is neither '$' nor '!',
\* whatever follows and whatever the destination is; in both cases nothing
\* is written and the registry is not read.
EnvelopeOrder ==
    ret.op \in {"ParseTo", "Parse"} =>
        /\ Len(sentence) < 6 => (ret.err = ErrTooShort /\ Untouched)
        /\ (Len(sentence) >= 6 /\ sentence[1] \notin {Ord("$"), Ord("!")}) =>
              (ret.err = ErrNoSigil /\ Untouched)

\* ParseTo, given a struct that is no pointer and a sentence that is both
\* too short and without a sigil, has returned ErrTooShort.
EnvelopeOrderSeen ==
    /\ ret.op = "ParseTo"
    /\ ret.before.kind = NonPtr
    /\ Len(sentence) = 5
    /\ sentence[1] \notin {Ord("$"), Ord("!")}
    /\ ret.err = ErrTooShort
    /\ dst = ret.before
-----------------------------------------------------------------------------
(* SpecReg: Register calls and dynamic decodes, one after the other *)

\* What a caller may hand to Register as dst: nil, a struct value, or a
\* pointer to a struct.
NilValue == [kind |-> "nil", typ |-> "nil"]
StructValue(t) == [kind |-> "struct", typ |-> t]
PtrValue(t) == [kind |-> "ptr", typ |-> t]

\* Register with a nil dst that leaves the registration in place.
Register_KeepOnNil(reg, typ, v) ==
    IF v.kind = "nil" THEN [reg |-> reg, panicked |-> FALSE]
    ELSE IF v.kind # "struct" THEN [reg |-> reg, panicked |-> TRUE]
    ELSE [reg |-> [k \in DOMAIN reg \cup {typ} |-> IF k = typ THEN v ELSE reg[k]],
          panicked |-> FALSE]

\* Register(typ, v) on the registry reg: the registry afterwards and
\* whether the call panicked.
Register(reg, typ, v) ==
    IF v.kind = "nil"
    THEN [reg |-> [k \in DOMAIN reg \ {typ} |-> reg[k]], panicked |-> FALSE]
    ELSE IF v.kind # "struct" THEN [reg |-> reg, panicked |-> TRUE]
    ELSE [reg |-> [k \in DOMAIN reg \cup {typ} |-> IF k = typ THEN v ELSE reg[k]],
          panicked |-> FALSE]

\* The keys Register is called with: two built-in keys and a new one.
RegKeys ==
    { S(<< "G", "P", "B", "O", "D" >>),
      S(<< "G", "P", "T", "H", "S" >>),
      S(<< "X", "X", "T", "H", "S" >>) }

RegValues == { NilValue, StructValue("BOD"), StructValue("THS"), PtrValue("BOD") }

\* The sentences decoded between Register calls: each key alone, and with
\* one number, with a right and a wrong checksum.
RegSentences ==
    { Text(Ord("$"), toks, suffix) :
        toks \in { << k >> : k \in RegKeys } \cup { << k, S(<< "1" >>) >> : k \in RegKeys },
        suffix \in {"good", "bad"} }

NoRegCall == [op |-> "none", typ |-> << >>, v |-> NilValue, panicked |-> FALSE,
              pre |-> DefaultRegistry, text |-> << >>, out |-> [rec |-> NilRecord, err |-> ErrTooShort,
                       looked |-> FALSE, ok |-> FALSE]]

\* lastReg[k]: the dst of the last Register call for k that returned.
InitReg ==
    /\ registry = DefaultRegistry
    /\ lastReg = [k \in {} |-> NilValue]
    /\ regRet = NoRegCall
    /\ DecodeIdle /\ ConcIdle /\ AISIdle

\* Register(typ, v) returns r.
RegisterReturns(typ, v, r) ==
    /\ registry' = r.reg
    /\ lastReg' = IF r.panicked THEN lastReg
                  ELSE [k \in DOMAIN lastReg \cup {typ} |->
                            IF k = typ THEN v ELSE lastReg[k]]
    /\ regRet' = [NoRegCall EXCEPT !.op = "Register", !.typ = typ, !.v = v,
                                   !.panicked = r.panicked, !.pre = registry]

\* Register(typ, v)
CallRegister ==
    \E typ \in RegKeys, v \in RegValues :
        /\ RegisterReturns(typ, v, Register(registry, typ, v))
        /\ UNCHANGED <<sentence, dst, ret, lock, procs, ais>>

\* rec, err := Parse(s) with the registry as it now is
CallRegParse ==
    \E s \in RegSentences :
        /\ regRet' = [NoRegCall EXCEPT !.op = "Parse", !.text = s, !.pre = registry,
                                       !.out = Parse(s, registry)]
        /\ UNCHANGED <<sentence, dst, ret, registry, lastReg, lock, procs, ais>>

NextReg == CallRegister \/ CallRegParse

SpecReg == InitReg /\ [][NextReg]_vars


-----------------------------------------------------------------------------
(* Properties of the registry, checked under SpecReg *)

\* C6: when token 0 of a sentence that passes the envelope checks is not a
\* key of the registry at the moment of the lookup, Parse returns a nil
\* record and ErrNotRegistered, whether or not the checksum matches.
NotRegisteredAtLookup ==
    (/\ regRet.op = "Parse"
     /\ EnvelopeOK(regRet.text)
     /\ Token0(regRet.text) \notin DOMAIN regRet.pre) =>
        /\ regRet.out.err = ErrNotRegistered
        /\ regRet.out.rec = NilRecord

\* Parse has returned ErrNotRegistered for a sentence with a wrong
\* checksum whose token 0, GPBOD, is registered at first and was
\* deregistered before the call.
NotRegisteredAtLookupSeen ==
    /\ regRet.op = "Parse"
    /\ Mismatch(regRet.text)
    /\ Token0(regRet.text) = S(<< "G", "P", "B", "O", "D" >>)
    /\ Token0(regRet.text) \in DOMAIN DefaultRegistry
    /\ Token0(regRet.text) \notin DOMAIN registry
    /\ regRet.out.err = ErrNotRegistered

\* What a registry holds for a key: the value, or nil when it has none.
EntryOf(reg, k) == IF k \in DOMAIN reg THEN reg[k] ELSE NilValue

\* Every key holds what the last Register call for it that returned
\* passed (nothing when that was nil), or, when there was no such call,
\* what the package registered for it at first.
RegistryMatchesHistory ==
    /\ DOMAIN registry \subseteq RegKeys \cup DOMAIN DefaultRegistry
    /\ \A k \in RegKeys \cup DOMAIN DefaultRegistry :
          EntryOf(registry, k) = IF k \in DOMAIN lastReg THEN lastReg[k]
                                 ELSE EntryOf(DefaultRegistry, k)

\* A Register call changes no other key, and with nil for a key that is
\* not registered changes nothing.
RegisterStep ==
    (regRet'.op = "Register" /\ regRet' # regRet) =>
        /\ \A k \in (RegKeys \cup DOMAIN DefaultRegistry) \ {regRet'.typ} :
              EntryOf(registry', k) = EntryOf(registry, k)
        /\ (regRet'.v = NilValue /\ regRet'.typ \notin DOMAIN registry) =>
              registry' = registry

\* C7: after any sequence of Register calls a key is registered exactly
\* when the last call for it passed a struct, or when there was no call
\* for it and it is built in, and it then holds the struct passed last;
\* Register(k, nil) for an unregistered k changes nothing, and no call
\* changes another key.
RegisterLaw == []RegistryMatchesHistory /\ [][RegisterStep]_vars

\* Register calls have removed a built-in key, given another built-in key
\* a different struct, and added a new key.
RegisterLawSeen ==
    /\ regRet.op = "Register"
    /\ S(<< "G", "P", "B", "O", "D" >>) \notin DOMAIN registry
    /\ EntryOf(registry, S(<< "G", "P", "T", "H", "S" >>)) = StructValue("BOD")
    /\ EntryOf(registry, S(<< "X", "X", "T", "H", "S" >>)) = StructValue("THS")
    /\ lastReg[S(<< "G", "P", "B", "O", "D" >>)] = NilValue

-----------------------------------------------------------------------------
(* The AIS codec *)

\* deArmorFrom without the step over the gap 'X'..'_'.
RECURSIVE deArmorFrom_NoGap(_, _, _)
deArmorFrom_NoGap(data, d, i) ==
    IF i >= Len(data) THEN [out |-> d, isNil |-> FALSE, err |-> NoError]
    ELSE LET b == data[i + 1] IN
         IF b < Ord("0") \/ Ord("w") < b \/ (Ord("X") <= b /\ b <= Ord("_"))
         THEN [out |-> d, isNil |-> FALSE, err |-> ErrBadBinary]
         ELSE deArmorFrom_NoGap(data, [d EXCEPT ![i + 1] = b - Ord("0")], i + 1)

\* DeArmorAIS from byte i on (i counted from 0), d being the slice dst
\* made for the result: a byte outside the armoring alphabet ends the call
\* with dst as far as it was filled.
RECURSIVE deArmorFrom(_, _, _)
deArmorFrom(data, d, i) ==
    IF i >= Len(data) THEN [out |-> d, isNil |-> FALSE, err |-> NoError]
    ELSE LET b == data[i + 1] IN
         IF b < Ord("0") \/ Ord("w") < b \/ (Ord("X") <= b /\ b <= Ord("_"))
         THEN [out |-> d, isNil |-> FALSE, err |-> ErrBadBinary]
         ELSE LET v == b - Ord("0") IN
              deArmorFrom(data, [d EXCEPT ![i + 1] = IF v > 40 THEN v - 8 ELSE v], i + 1)

DeArmorAIS(data) ==
    IF data = << >> THEN [out |-> << >>, isNil |-> TRUE, err |-> NoError]
    ELSE deArmorFrom(data, [i \in 1..Len(data) |-> 0], 0)

asciiFor ==
    S(<< "@", "A", "B", "C", "D", "E", "F", "G", "H", "I", "J", "K", "L", "M", "N", "O",
         "P", "Q", "R", "S", "T", "U", "V", "W", "X", "Y", "Z", "[", "backslash", "]", "^", "_",
         " ", "!", "quote", "#", "$", "%", "&", "'", "(", ")", "*", "+", ",", "-", ".", "/",
         "0", "1", "2", "3", "4", "5", "6", "7", "8", "9", ":", ";", "<", "=", ">", "?" >>)

\* SixBitToASCII(b6): the byte returned, or the panic.
SixBitToASCII(b6) ==
    IF b6 > 63 THEN [out |-> 0, err |-> Panic("nmea: six bit ascii overflow")]
    ELSE [out |-> asciiFor[b6 + 1], err |-> NoError]

\* bitAddr(i): the symbol that holds bit i of the stream and the bit of
\* that symbol.
bitAddr(i) == [w |-> i \div 6, b |-> 5 - (i % 6)]

\* big.Int.SetBit(x, i, v) and big.Int.Bytes() on values that are not
\* negative: the big-endian bytes without leading zero bytes.
SetBit(x, i, v) == x - BitOf(x, i) * (2 ^ i) + v * (2 ^ i)

RECURSIVE Bytes(_)
Bytes(x) == IF x = 0 THEN << >> ELSE Bytes(x \div 256) \o << x % 256 >>

\* setBitsFrom that sets bit e-i-1 for stream bit i, so that the field
\* ends at bit 0 of the value.
RECURSIVE setBitsFrom_FromBitZero(_, _, _, _, _)
setBitsFrom_FromBitZero(b6, s, e, i, bits) ==
    IF i >= e THEN [bits |-> bits, err |-> NoError]
    ELSE LET a == bitAddr(i) IN
         IF a.w >= Len(b6) THEN [bits |-> bits, err |-> Panic("index out of range")]
         ELSE setBitsFrom_FromBitZero(b6, s, e, i + 1,
                                      SetBit(bits, e - i - 1, BitOf(b6[a.w + 1], a.b)))

\* The loop of AISBitField from bit i on: reading b6[w] past the end of
\* b6 panics.
RECURSIVE setBitsFrom(_, _, _, _, _)
setBitsFrom(b6, s, e, i, bits) ==
    IF i >= e THEN [bits |-> bits, err |-> NoError]
    ELSE LET a == bitAddr(i) IN
         IF a.w >= Len(b6) THEN [bits |-> bits, err |-> Panic("index out of range")]
         ELSE setBitsFrom(b6, s, e, i + 1,
                          SetBit(bits, e - (i - s) - 1, BitOf(b6[a.w + 1], a.b)))

\* AISBitField(b6, s, e): the bytes returned, whether they are nil, and
\* the panic if there was one.
AISBitField(b6, s, e) ==
    IF s < 0 \/ e < 0 \/ e < s
    THEN [out |-> << >>, isNil |-> TRUE, err |-> Panic("nmea: bitfield index out of bounds")]
    ELSE IF s = e THEN [out |-> << >>, isNil |-> TRUE, err |-> NoError]
    ELSE IF bitAddr(s).w > Len(b6)
    THEN [out |-> << >>, isNil |-> TRUE, err |-> Panic("nmea: bitfield index out of bounds")]
    ELSE LET r == setBitsFrom(b6, s, e, s, 0)
             padding == (6 - ((e - s) % 6)) % 6
         IN IF r.err # NoError THEN [out |-> << >>, isNil |-> TRUE, err |-> r.err]
            ELSE [out |-> Bytes(r.bits \div (2 ^ padding)), isNil |-> FALSE, err |-> NoError]

-----------------------------------------------------------------------------
(* SpecAIS: calls of the AIS codec *)

\* The most symbols in a symbol buffer, and the most bytes in a payload.
MaxSyms == 2
MaxPayload == 2

\* The 6-bit symbols buffers are made of, and the buffers.
Symbols == {0, 1, 42, 63}
Buffers == SeqsUpTo(Symbols, MaxSyms)

\* The bit indexes AISBitField is called with: from below 0 to past the
\* end of the longest buffer.
BitIndexes == (-1)..(6 * MaxSyms + 1)

\* Payload bytes: the ends of the two runs of the armoring alphabet, the
\* bytes next to them, and the ends of the gap 'X'..'_'.
PayloadBytes == S(<< "/", "0", "W", "X", "_", "backtick", "w", "x" >>)
Payloads == SeqsUpTo({ PayloadBytes[i] : i \in 1..Len(PayloadBytes) }, MaxPayload)

\* The values SixBitToASCII is called with.
SixBitValues == 0..65

NoAISCall == [op |-> "none", b6 |-> << >>, s |-> 0, e |-> 0, data |-> << >>, b |-> 0,
              out |-> << >>, isNil |-> TRUE, err |-> NoError]

InitAIS ==
    /\ ais = NoAISCall
    /\ registry = DefaultRegistry
    /\ DecodeIdle /\ RegIdle /\ ConcIdle

\* out := AISBitField(b6, s, e)
CallAISBitField ==
    \E b6 \in Buffers, s \in BitIndexes, e \in BitIndexes :
        /\ ais.op = "none"
        /\ LET r == AISBitField(b6, s, e) IN
           ais' = [NoAISCall EXCEPT !.op = "AISBitField", !.b6 = b6, !.s = s, !.e = e,
                                    !.out = r.out, !.isNil = r.isNil, !.err = r.err]
        /\ UNCHANGED <<sentence, dst, ret, registry, lastReg, regRet, lock, procs>>

\* out, err := DeArmorAIS(data)
CallDeArmorAIS ==
    \E data \in Payloads :
        /\ ais.op = "none"
        /\ LET r == DeArmorAIS(data) IN
           ais' = [NoAISCall EXCEPT !.op = "DeArmorAIS", !.data = data,
                                    !.out = r.out, !.isNil = r.isNil, !.err = r.err]
        /\ UNCHANGED <<sentence, dst, ret, registry, lastReg, regRet, lock, procs>>

\* out := SixBitToASCII(b)
CallSixBitToASCII ==
    \E b \in SixBitValues :
        /\ ais.op = "none"
        /\ LET r == SixBitToASCII(b) IN
           ais' = [NoAISCall EXCEPT !.op = "SixBitToASCII", !.b = b,
                                    !.out = << r.out >>, !.isNil = FALSE, !.err = r.err]
        /\ UNCHANGED <<sentence, dst, ret, registry, lastReg, regRet, lock, procs>>

NextAIS == CallAISBitField \/ CallDeArmorAIS \/ CallSixBitToASCII

SpecAIS == InitAIS /\ [][NextAIS]_vars

-----------------------------------------------------------------------------
(* Properties of the AIS codec, checked under SpecAIS *)

\* Bit i of the stream of a symbol buffer: bit 5 - (i mod 6) of symbol
\* i div 6.
StreamBit(b6, i) == BitOf(b6[(i \div 6) + 1], 5 - (i % 6))

\* The integer formed from stream bits s..e-1, the first the most
\* significant.
RECURSIVE FieldValue(_, _, _)
FieldValue(b6, s, e) ==
    IF e <= s THEN 0 ELSE 2 * FieldValue(b6, s, e - 1) + StreamBit(b6, e - 1)

\* The integer a byte slice holds, the first byte the most significant.
RECURSIVE BigEndian(_)
BigEndian(bs) ==
    IF bs = << >> THEN 0
    ELSE 256 * BigEndian(SubSeq(bs, 1, Len(bs) - 1)) + bs[Len(bs)]

\* C10 as stated: for 0 <= s < e <= 6*len(b6) the value of
\* AISBitField(b6, s, e) is F >> p, F the integer formed from stream bits
\* s..e-1 and p = (6 - ((e-s) mod 6)) mod 6, whatever s is.
BitFieldValue ==
    (/\ ais.op = "AISBitField"
     /\ 0 <= ais.s /\ ais.s < ais.e /\ ais.e <= 6 * Len(ais.b6)) =>
        /\ ais.err = NoError
        /\ BigEndian(ais.out) =
              FieldValue(ais.b6, ais.s, ais.e) \div (2 ^ ((6 - ((ais.e - ais.s) % 6)) % 6))


\* C11 as stated: for 0 <= s < e <= 6*len(b6) the least significant bit of
\* the value AISBitField(b6, s, e) returns is stream bit e-1, the last bit
\* extracted.
BitFieldLastBit ==
    (/\ ais.op = "AISBitField"
     /\ 0 <= ais.s /\ ais.s < ais.e /\ ais.e <= 6 * Len(ais.b6)) =>
        /\ ais.err = NoError
        /\ BigEndian(ais.out) % 2 = StreamBit(ais.b6, ais.e - 1)

\* A request that is out of range: an index below 0, an end before the
\* start, or an index past the 6*len(b6) bits of the buffer.
OutOfRange(b6, s, e) == s < 0 \/ e < 0 \/ e < s \/ s > 6 * Len(b6) \/ e > 6 * Len(b6)

\* C12 as stated: AISBitField panics for every request that is out of
\* range, and returns the empty (nil) result without a panic only when
\* s = e lies within the buffer.
BitFieldBounds ==
    ais.op = "AISBitField" =>
        /\ OutOfRange(ais.b6, ais.s, ais.e) => ais.err.kind = "panic"
        /\ (ais.err = NoError /\ ais.isNil) =>
               (ais.s = ais.e /\ ~OutOfRange(ais.b6, ais.s, ais.e))

\* A byte outside the armoring alphabet: below '0', above 'w' or in
\* 'X'..'_'.
BadArmor(c) == c < 48 \/ c > 119 \/ (88 <= c /\ c <= 95)

\* C13: DeArmorAIS fails with ErrBadBinary exactly when some byte is
\* outside the armoring alphabet; otherwise the output has the length of
\* the input and symbol i is c-48 for a byte c in '0'..'W' and c-56 for a
\* byte in '`'..'w', a value in 0..63.  The empty string gives the empty
\* buffer and no error.
DeArmorMapping ==
    ais.op = "DeArmorAIS" =>
        IF \E i \in 1..Len(ais.data) : BadArmor(ais.data[i])
        THEN ais.err = ErrBadBinary
        ELSE /\ ais.err = NoError
             /\ Len(ais.out) = Len(ais.data)
             /\ \A i \in 1..Len(ais.data) :
                   /\ ais.out[i] = IF ais.data[i] <= 87 THEN ais.data[i] - 48
                                   ELSE ais.data[i] - 56
                   /\ ais.out[i] \in 0..63

\* A payload with a byte of each run of the alphabet has been de-armored.
DeArmorMappingSeen ==
    /\ ais.op = "DeArmorAIS"
    /\ ais.err = NoError
    /\ Len(ais.data) = 2
    /\ ais.data[1] = 87 /\ ais.data[2] = 119
    /\ ais.out = << 39, 63 >>

\* The value the code leaves in bits: F * 2^s, the field at bits s..e-1,
\* shifted right by the padding p = (6 - ((e-s) mod 6)) mod 6.
ShiftedValue(b6, s, e) ==
    (FieldValue(b6, s, e) * (2 ^ s)) \div (2 ^ ((6 - ((e - s) % 6)) % 6))

\* A byte slice is the shortest big-endian form of x: it holds x and does
\* not begin with a zero byte, so that 0 is the empty slice.
MinimalBytes(bs, x) ==
    /\ \A i \in 1..Len(bs) : bs[i] \in 0..255
    /\ BigEndian(bs) = x
    /\ bs # << >> => bs[1] # 0

-----------------------------------------------------------------------------
(* SpecConc: goroutines calling Register and Parse at the same time *)

\* The number of goroutines.
NumProcs == 2

Procs == 1..NumProcs

\* The key the goroutines register and look up, the sentence they decode
\* with what the envelope checks make of it, and what they hand to
\* Register.
ConcKey == S(<< "G", "P", "B", "O", "D" >>)
ConcSentence == Text(Ord("$"), << ConcKey >>, "good")
ConcEnvelope == parseEnvelope(ConcSentence)
ConcValues == { NilValue, StructValue("THS"), PtrValue("BOD") }

\* What a map read that overlaps a map write may give besides a value of
\* the map: an entry that is partly written.
Torn == [kind |-> "torn", typ |-> "torn"]

\* registryLock, a sync.RWMutex: w is the goroutine that is in Lock or
\* holds the write lock (0 when there is none), readers are the goroutines
\* that hold the read lock.
LockFree == [w |-> 0, readers |-> {}]

\* Lock() can begin when no other writer is in Lock or holds the lock, and
\* returns when the readers have left; RLock() returns when no writer is
\* in Lock or holds the lock.
LockReady(l)  == l.w = 0
Drained(l)    == l.readers = {}
RLockReady_NoWait(l) == TRUE
RLockReady(l) == l.w = 0

\* A goroutine between calls, with what its last call returned.
Idle(r) == [pc |-> "idle", v |-> NilValue, got |-> NilValue, seen |-> {},
            raced |-> FALSE, ret |-> r]

InitConc ==
    /\ registry = DefaultRegistry
    /\ lock = LockFree
    /\ procs = [p \in Procs |-> Idle("none")]
    /\ DecodeIdle /\ RegIdle /\ AISIdle

\* ConcCallRegister without the check of the kind of dst.
ConcCallRegister_NoCheck(p) ==
    \E v \in ConcValues :
        /\ procs[p].pc = "idle"
        /\ procs' = [procs EXCEPT ![p] = [Idle("none") EXCEPT !.pc = "lock", !.v = v]]
        /\ UNCHANGED <<sentence, dst, ret, registry, lastReg, regRet, lock, ais>>

\* go Register(ConcKey, v): the checks before the lock is taken (lines
\* 533 and 539-541).  A goroutine that panicked keeps the dst it was
\* given.
ConcCallRegister(p) ==
    \E v \in ConcValues :
        /\ procs[p].pc = "idle"
        /\ procs' = [procs EXCEPT ![p] =
                        IF v.kind \notin {"nil", "struct"}
                        THEN [Idle("panic") EXCEPT !.v = v]
                        ELSE [Idle("none") EXCEPT !.pc = "lock", !.v = v]]
        /\ UNCHANGED <<sentence, dst, ret, registry, lastReg, regRet, lock, ais>>

\* registryLock.Lock() begins: later readers and writers wait.
RegLock(p) ==
    /\ procs[p].pc = "lock"
    /\ LockReady(lock)
    /\ lock' = [lock EXCEPT !.w = p]
    /\ procs' = [procs EXCEPT ![p].pc = "drain"]
    /\ UNCHANGED <<sentence, dst, ret, registry, lastReg, regRet, ais>>

\* registryLock.Lock() returns and the write of the map begins.
WriteBegin(p) ==
    /\ procs[p].pc = "drain"
    /\ Drained(lock)
    /\ procs' = [q \in Procs |->
                    IF q = p THEN [procs[q] EXCEPT !.pc = "writing"]
                    ELSE IF procs[q].pc = "reading" THEN [procs[q] EXCEPT !.raced = TRUE]
                    ELSE procs[q]]
    /\ UNCHANGED <<sentence, dst, ret, registry, lastReg, regRet, lock, ais>>

\* delete(registry, typ) or registry[typ] = dst is done.  Every Parse call
\* under way gets to know the entry the key now has.
WriteEnd(p) ==
    /\ procs[p].pc = "writing"
    /\ registry' = Register(registry, ConcKey, procs[p].v).reg
    /\ procs' = [q \in Procs |->
                    IF q = p THEN [procs[q] EXCEPT !.pc = "unlock"]
                    ELSE IF procs[q].pc \in {"rlock", "reading", "runlock", "decode"}
                    THEN [procs[q] EXCEPT !.seen = @ \cup {EntryOf(registry', ConcKey)}]
                    ELSE procs[q]]
    /\ UNCHANGED <<sentence, dst, ret, lastReg, regRet, lock, ais>>

\* RegUnlock for a Register that returns without Unlock.
RegUnlock_KeepLock(p) ==
    /\ procs[p].pc = "unlock"
    /\ procs' = [procs EXCEPT ![p] = Idle("done")]
    /\ UNCHANGED <<sentence, dst, ret, registry, lastReg, regRet, lock, ais>>

\* registryLock.Unlock(), and Register returns.
RegUnlock(p) ==
    /\ procs[p].pc = "unlock"
    /\ lock' = [lock EXCEPT !.w = 0]
    /\ procs' = [procs EXCEPT ![p] = Idle("done")]
    /\ UNCHANGED <<sentence, dst, ret, registry, lastReg, regRet, ais>>

\* A goroutine whose Parse call has passed or failed the envelope checks,
\* e being what they gave.
Started(e) ==
    IF e.err # NoError THEN Idle(e.err.kind)
    ELSE [Idle("none") EXCEPT !.pc = "rlock", !.seen = {EntryOf(registry, ConcKey)}]

\* go Parse(ConcSentence): the envelope checks and the split (lines
\* 584-603).
ConcCallParse(p) ==
    /\ procs[p].pc = "idle"
    /\ procs' = [procs EXCEPT ![p] = Started(ConcEnvelope)]
    /\ UNCHANGED <<sentence, dst, ret, registry, lastReg, regRet, lock, ais>>

\* registryLock.RLock() returns and the read of the map begins.
ReadBegin(p) ==
    /\ procs[p].pc = "rlock"
    /\ RLockReady(lock)
    /\ lock' = [lock EXCEPT !.readers = @ \cup {p}]
    /\ procs' = [procs EXCEPT ![p].pc = "reading",
                              ![p].raced = \E q \in Procs : procs[q].pc = "writing"]
    /\ UNCHANGED <<sentence, dst, ret, registry, lastReg, regRet, ais>>

\* dst, ok := registry[fields[0]] is done.  A read that overlapped a write
\* is a data race: it may give the entry of the map or a torn one.
ReadEnd(p) ==
    /\ procs[p].pc = "reading"
    /\ \E got \in {EntryOf(registry, ConcKey)} \cup
                  (IF procs[p].raced \/ \E q \in Procs : procs[q].pc = "writing"
                   THEN {Torn} ELSE {}) :
          procs' = [procs EXCEPT ![p].pc = "runlock", ![p].got = got]
    /\ UNCHANGED <<sentence, dst, ret, registry, lastReg, regRet, lock, ais>>

\* registryLock.RUnlock()
ParseRUnlock(p) ==
    /\ procs[p].pc = "runlock"
    /\ lock' = [lock EXCEPT !.readers = @ \ {p}]
    /\ procs' = [procs EXCEPT ![p].pc = "decode"]
    /\ UNCHANGED <<sentence, dst, ret, registry, lastReg, regRet, ais>>

\* A goroutine whose Parse call has returned: got is the value the lookup
\* gave, e the tokens and checksums of the sentence.
Decoded(got, e) ==
    IF got = Torn THEN Idle("panic")
    ELSE IF got = NilValue THEN Idle(ErrNotRegistered.kind)
    ELSE Idle(finishParse(got, e.fields, e.sum, e.wantSum).err.kind)

\* Decoded for the sentence of the goroutines and every value their lookup
\* may give.
ConcDecoded ==
    [got \in {NilValue, Torn, StructValue("BOD")} \cup ConcValues |->
        Decoded(got, ConcEnvelope)]

\* The rest of Parse (lines 608-621): the value found is decoded into, and
\* Parse returns.  A torn value makes the run time stop the program.
ParseDecode(p) ==
    /\ procs[p].pc = "decode"
    /\ procs' = [procs EXCEPT ![p] = ConcDecoded[procs[p].got]]
    /\ UNCHANGED <<sentence, dst, ret, registry, lastReg, regRet, lock, ais>>

NextConc ==
    \E p \in Procs :
        \/ ConcCallRegister(p)
        \/ RegLock(p)
        \/ WriteBegin(p)
        \/ WriteEnd(p)
        \/ RegUnlock(p)
        \/ ConcCallParse(p)
        \/ ReadBegin(p)
        \/ ReadEnd(p)
        \/ ParseRUnlock(p)
        \/ ParseDecode(p)

SpecConc == InitConc /\ [][NextConc]_vars

-----------------------------------------------------------------------------
(* Properties of the registry under concurrency, checked under SpecConc *)

\* C8: at no time is the registry read while a write of it is under way,
\* or written by two goroutines at once; and what a Parse call has read
\* for its key is not a torn entry but the absence or the struct that the
\* key had at some moment since the call began.
RegistryAccessSafe ==
    /\ \A p \in Procs : \A q \in Procs \ {p} :
          ~(procs[p].pc = "writing" /\ procs[q].pc \in {"reading", "writing"})
    /\ \A p \in Procs :
          procs[p].pc \in {"runlock", "decode"} =>
              /\ procs[p].got # Torn
              /\ procs[p].got \in procs[p].seen

\* A Parse call has read the struct that a Register call put in place
\* after the Parse call began: the entry it saw first was another one.
RegistryAccessSafeSeen ==
    \E p \in Procs :
        /\ procs[p].pc = "decode"
        /\ procs[p].got = StructValue("THS")
        /\ StructValue("BOD") \in procs[p].seen
        /\ \E q \in Procs \ {p} : procs[q].pc \in {"lock", "drain"}


\* Goroutine p calls Register in this step, and with a dst that is not nil.
RegisterCalled(p) ==
    /\ procs[p].pc = "idle"
    /\ procs'[p] # procs[p]
    /\ procs'[p].pc = "lock" \/ procs'[p].v # NilValue
NonNilRegistered(p) == RegisterCalled(p) /\ procs'[p].v # NilValue

RegisterPanicStep ==
    \A p \in Procs :
        NonNilRegistered(p) =>
            /\ procs'[p].ret = "panic" <=> procs'[p].v.kind # "struct"
            /\ procs'[p].ret = "panic" =>
                  /\ procs'[p].pc = "idle"
                  /\ registry' = registry
                  /\ lock' = lock
                  /\ lock.w # p /\ p \notin lock.readers

\* C19: a Register call with a dst that is not nil panics exactly when the
\* kind of dst is not struct, so for a pointer to a struct; the step that
\* panics leaves the registry and the lock as they were, and the caller
\* neither holds nor waits for the lock.
RegisterPanics == [][RegisterPanicStep]_vars

\* A Register call given a pointer to a struct has panicked while another
\* goroutine was writing the registry.
RegisterPanicsSeen ==
    \E p \in Procs :
        /\ procs[p].pc = "idle"
        /\ procs[p].ret = "panic"
        /\ procs[p].v = PtrValue("BOD")
        /\ lock.w # p
        /\ \E q \in Procs \ {p} : procs[q].pc = "writing"

-----------------------------------------------------------------------------
(* SpecUser: the decoder applied to struct types of the user *)

\* The sentences decoded into the user's types: those of every shape of
\* token list, and those the envelope checks turn away.
UserSentences == CoreSentences \cup EnvelopeSentences

\* The keys the user's types are registered under: one the registry has,
\* one it has not.
UserKeys ==
    { S(<< "G", "P", "B", "O", "D" >>),
      S(<< "G", "P", "X", "X", "X" >>) }

InitUser ==
    /\ sentence \in UserSentences
    /\ dst \in { [kind |-> PtrStruct, rv |-> ZeroStruct(t)] : t \in UserTypes }
    /\ ret = NoCall
    /\ registry = DefaultRegistry
    /\ RegIdle /\ ConcIdle /\ AISIdle

\* Register(key, T{}) for a struct type T of the user, before any decode.
UserRegister ==
    \E key \in UserKeys, t \in UserTypes :
        /\ ret.op = "none"
        /\ registry = DefaultRegistry
        /\ registry' = Register(registry, key, StructValue(t)).reg
        /\ UNCHANGED <<sentence, dst, ret, lastReg, regRet, lock, procs, ais>>

NextUser == UserRegister \/ CallParseTo \/ CallParse

SpecUser == InitUser /\ [][NextUser]_vars

\* C18 as stated: ParseTo and Parse never panic, whatever the sentence and
\* whatever struct type they decode into.
NeverPanics == ret.op \in {"ParseTo", "Parse"} => ret.err.kind # "panic"

-----------------------------------------------------------------------------
(* SpecTwice: the same sentence decoded twice, other calls in between *)

\* The sentences decoded twice, and the sentences decoded in between.
TwiceSentences == LatLonSentences \cup EnvelopeSentences \cup KeySentences
BetweenSentences == { ConcSentence, Text(Ord("$"), << ConcKey, S(<< "1" >>) >>, "bad") }

\* regRet holds what the second call returned, lastReg what the last
\* Parse call in between returned; each is empty until the call was made.
InitTwice ==
    /\ sentence \in TwiceSentences
    /\ dst \in { [kind |-> PtrStruct, rv |-> ZeroStruct(t)] : t \in DstTypes \cup {"GLL"} }
    /\ ret = NoCall
    /\ registry = DefaultRegistry
    /\ RegIdle /\ ConcIdle /\ AISIdle

Between == ret.op = "ParseTo" /\ regRet = << >>

\* Register(key, v) between the two decodes.
BetweenRegister ==
    \E key \in UserKeys, v \in ConcValues :
        /\ Between
        /\ registry' = Register(registry, key, v).reg
        /\ UNCHANGED <<sentence, dst, ret, lastReg, regRet, lock, procs, ais>>

\* rec, err := Parse(s) between the two decodes.
BetweenParse ==
    \E s \in BetweenSentences :
        /\ Between
        /\ lastReg' = << Parse(s, registry) >>
        /\ UNCHANGED <<sentence, dst, ret, registry, regRet, lock, procs, ais>>

\* err := ParseTo(dst2, sentence), dst2 a pointer to a fresh struct of the
\* type the first call decoded into.
SecondParseTo ==
    /\ Between
    /\ regRet' = << ParseTo([kind |-> PtrStruct, rv |-> ZeroStruct(ret.before.rv.typ)],
                            sentence) >>
    /\ UNCHANGED <<sentence, dst, ret, registry, lastReg, lock, procs, ais>>

NextTwice == CallParseTo \/ BetweenRegister \/ BetweenParse \/ SecondParseTo

SpecTwice == InitTwice /\ [][NextTwice]_vars

-----------------------------------------------------------------------------
(* Errors and frame of the decoder, checked under Spec *)

\* The call that returned got as far as decoding fields: the sentence
\* passed the envelope checks, and ParseTo was given a pointer to a struct
\* or Parse found token 0 in the registry.
Decoding ==
    /\ ret.op \in {"ParseTo", "Parse"}
    /\ EnvelopeOK(sentence)
    /\ ret.op = "ParseTo" => ret.before.kind = PtrStruct
    /\ ret.op = "Parse" => Token0(sentence) \in DOMAIN registry

\* The struct type decoded into, and the struct as it was before the call.
CallType   == IF ret.op = "ParseTo" THEN ret.before.rv.typ
              ELSE registry[Token0(sentence)].typ
CallBefore == IF ret.op = "ParseTo" THEN ret.before.rv ELSE ZeroStruct(CallType)

\* The error the converter of field i of a struct type returns for the
\* token at its position.
ConverterError(typ, toks, i) ==
    methodFor(structs[typ][i].tag, structs[typ][i].kind,
              Zero(structs[typ][i].kind), toks[i]).err

\* The fields of a struct type whose converter fails on the token at their
\* position, and the first of them.
FailingFields(typ, toks) ==
    { i \in 2..NumField(typ) :
        /\ i <= Len(toks)
        /\ structs[typ][i].tag \in methodTags
        /\ ConverterError(typ, toks, i) # NoError }
FirstFailing(typ, toks) ==
    CHOOSE i \in FailingFields(typ, toks) : \A j \in FailingFields(typ, toks) : i <= j

\* Token 0 is accepted and the converter of some field fails on its token.
ConverterFails ==
    /\ Decoding
    /\ Accepts(TypeTag(CallType), Token0(sentence))
    /\ FailingFields(CallType, TokensOf(sentence)) # {}

\* C21 as stated: when the converter of a field fails on its token, ParseTo
\* and Parse return that converter's error, also when the declared
\* checksum does not match.
ConverterErrorReturned ==
    ConverterFails =>
        ret.err = ConverterError(CallType, TokensOf(sentence),
                                 FirstFailing(CallType, TokensOf(sentence)))

\* C21: when the converter of a field fails on its token, ParseTo and
\* Parse return that converter's error if the sentence has no checksum or
\* the declared checksum matches, and ErrChecksum if it does not match.
ConverterErrorUnlessChecksum ==
    ConverterFails =>
        ret.err = IF Mismatch(sentence) THEN ErrChecksum
                  ELSE ConverterError(CallType, TokensOf(sentence),
                                      FirstFailing(CallType, TokensOf(sentence)))

\* Parse has returned the error of strconv.ParseFloat for the token "T" in
\* the field True of BOD, the checksum of the sentence being right.
ConverterErrorUnlessChecksumSeen ==
    /\ ret.op = "Parse"
    /\ ConverterFails
    /\ HasSum(sentence) /\ ~Mismatch(sentence)
    /\ CallType = "BOD"
    /\ TokensOf(sentence)[2] = S(<< "T" >>)
    /\ ret.err = NumError("ParseFloat", "invalid syntax")

\* The value field i of a struct type holds after it was decoded from the
\* tokens toks, old being its value before: the token for the Type field,
\* the declared checksum for a checksum field, the converter's value for a
\* field with a token, and the old value for any other.
DecodedValue(typ, toks, i, old) ==
    LET fd == structs[typ][i] IN
    IF fd.tag = noTag THEN old
    ELSE IF fd.name = "Type" THEN (IF fd.kind = "string" THEN toks[i] ELSE old)
    ELSE IF fd.tag = tagChecksum
    THEN SetIntTo(fd.kind, IF HasSum(sentence) THEN Declared(sentence).val ELSE 0)
    ELSE IF i > Len(toks) THEN old
    ELSE methodFor(fd.tag, fd.kind, old, toks[i]).val

\* C22: when the converter of field k fails, the fields before k hold
\* their decoded values and field k and every field after it, a checksum
\* field included, hold what they held before the call.
ConverterFailureFrame ==
    ConverterFails =>
        LET toks == TokensOf(sentence)
            k == FirstFailing(CallType, toks)
        IN /\ Returned.typ = CallType
           /\ \A i \in 1..NumField(CallType) :
                 Returned.val[i] =
                     IF i < k THEN DecodedValue(CallType, toks, i, CallBefore.val[i])
                     ELSE CallBefore.val[i]

\* ParseTo into a used GNS has decoded the time of day, failed on the
\* latitude "T" and left the latitude and the checksum as they were.
ConverterFailureFrameSeen ==
    /\ ret.op = "ParseTo"
    /\ ConverterFails
    /\ ret.before.rv = StaleStruct("GNS")
    /\ FirstFailing("GNS", TokensOf(sentence)) = 3
    /\ ret.err.kind = "NumError"
    /\ dst.rv.val[2] = << 0, 1, 1, 22, 54, 44, 0 >>
    /\ dst.rv.val[3] = << 7, 2 >>
    /\ dst.rv.val[NumField("GNS")] = << 7 >>

\* Token 0 is not accepted by the Type tag of the struct decoded into.
TypeRejected == Decoding /\ ~Accepts(TypeTag(CallType), Token0(sentence))

\* The Type field holds token 0 and every other field is as it was before
\* the call.
OnlyTypeWritten ==
    /\ Returned.typ = CallType
    /\ Returned.val[1] = Token0(sentence)
    /\ \A i \in 2..NumField(CallType) : Returned.val[i] = CallBefore.val[i]

\* The error parseTo returns to ParseTo or Parse (the err of lines 491 and
\* 618), before the two checksums are compared.
DecoderError ==
    parseTo(CallBefore, TokensOf(sentence),
            IF HasSum(sentence) THEN Declared(sentence).val ELSE 0).err

\* C23: when token 0 is not accepted by the Type tag, literal or pattern,
\* decoding fails with ErrNMEAType, the Type field holds token 0 and no
\* other field was written.  ParseTo and Parse return the decoder's error
\* unless the declared checksum does not match, which they report in its
\* place.
TypeMismatchStops ==
    TypeRejected =>
        /\ DecoderError = ErrNMEAType
        /\ ret.err = IF Mismatch(sentence) THEN ErrChecksum ELSE ErrNMEAType
        /\ OnlyTypeWritten

\* ParseTo has turned the sentence "$GLBOD,1*.." away from a used BOD:
\* Type holds "GLBOD" and True still holds the old value.
TypeMismatchStopsSeen ==
    /\ ret.op = "ParseTo"
    /\ TypeRejected
    /\ ~Mismatch(sentence)
    /\ ret.before.rv = StaleStruct("BOD")
    /\ Len(TokensOf(sentence)) = 2
    /\ ret.err = ErrNMEAType
    /\ dst.rv.val[1] = S(<< "G", "L", "B", "O", "D" >>)
    /\ dst.rv.val[2] = << 7, 2 >>

\* The field at which decoding into a struct type stops for the tokens
\* toks: 1 when token 0 is rejected, the first field whose converter
\* fails, or past the last field when there is none.
StopsAt(typ, toks) ==
    IF ~Accepts(TypeTag(typ), toks[1]) THEN 1
    ELSE IF FailingFields(typ, toks) # {} THEN FirstFailing(typ, toks)
    ELSE NumField(typ) + 1

\* C27: Parse returns a nil record exactly when the envelope checks fail
\* or token 0 is not a key of the registry; once the lookup has found a
\* struct type, the record returned is a struct of that type, also beside
\* an error, and holds the fields written before decoding stopped (the
\* Type field and the fields before the one that failed), the others
\* being zero.
ParseRecord ==
    ret.op = "Parse" =>
        IF ~EnvelopeOK(sentence) \/ Token0(sentence) \notin DOMAIN registry
        THEN ret.rec = NilRecord /\ ret.err # NoError
        ELSE LET typ  == registry[Token0(sentence)].typ
                 toks == TokensOf(sentence)
             IN /\ ret.rec # NilRecord
                /\ ret.rec.typ = typ
                /\ DOMAIN ret.rec.val = 1..NumField(typ)
                /\ \A i \in 1..NumField(typ) :
                      ret.rec.val[i] =
                          IF i = 1 \/ i < StopsAt(typ, toks)
                          THEN DecodedValue(typ, toks, i, Zero(structs[typ][i].kind))
                          ELSE Zero(structs[typ][i].kind)

\* Parse("$GNGNS,225444,T") has returned a GNS beside the error of the
\* latitude's converter: the record holds the type and the time of day,
\* and no latitude.
ParseRecordSeen ==
    /\ ret.op = "Parse"
    /\ EnvelopeOK(sentence)
    /\ TokensOf(sentence) =
           << S(<< "G", "N", "G", "N", "S" >>), S(<< "2", "2", "5", "4", "4", "4" >>),
              S(<< "T" >>) >>
    /\ ~Mismatch(sentence)
    /\ ret.err.kind = "NumError"
    /\ ret.rec.typ = "GNS"
    /\ ret.rec.val[1] = S(<< "G", "N", "G", "N", "S" >>)
    /\ ret.rec.val[2] = << 0, 1, 1, 22, 54, 44, 0 >>
    /\ ret.rec.val[3] = Zero(structs["GNS"][3].kind)

\* Decoding reaches field i of the struct type: token 0 is accepted and no
\* converter of an earlier field fails.
Reaches(typ, toks, i) ==
    /\ Accepts(TypeTag(typ), toks[1])
    /\ \A j \in FailingFields(typ, toks) : j >= i

\* C28: a field tagged date or time whose token is present and empty
\* makes decoding fail with the parse error of package time, the field
\* keeping its value; the same field past the last token is skipped, it
\* keeps its value and decoding ends without error.  A field tagged
\* number, latlon or string whose token is empty is set to the zero value
\* of its kind and decoding goes on.  ParseTo and Parse return the
\* decoder's error unless the declared checksum does not match.
EmptyTokens ==
    Decoding =>
        LET typ  == CallType
            toks == TokensOf(sentence)
        IN \A i \in 2..NumField(typ) :
              LET fd == structs[typ][i] IN
              Reaches(typ, toks, i) =>
                  /\ (fd.tag \in {tagDate, tagTime} /\ i <= Len(toks) /\ toks[i] = << >>) =>
                         /\ DecoderError.kind = "ParseError"
                         /\ ret.err = IF Mismatch(sentence) THEN ErrChecksum ELSE DecoderError
                         /\ Returned.val[i] = CallBefore.val[i]
                  /\ (fd.tag \in {tagDate, tagTime} /\ i > Len(toks)) =>
                         /\ DecoderError = NoError
                         /\ ret.err = IF Mismatch(sentence) THEN ErrChecksum ELSE NoError
                         /\ Returned.val[i] = CallBefore.val[i]
                  /\ (fd.tag \in {tagNumber, tagLatLon, tagString}
                         /\ i <= Len(toks) /\ toks[i] = << >>) =>
                         /\ StopsAt(typ, toks) > i
                         /\ Returned.val[i] = Zero(fd.kind)

\* ParseTo into a used TRF has decoded "$GPTRF,225444,": the time of day
\* was stored and the empty date made the call fail, the Date field left
\* as it was.
EmptyTokensSeen ==
    /\ ret.op = "ParseTo"
    /\ Decoding
    /\ ret.before.rv = StaleStruct("TRF")
    /\ TokensOf(sentence) =
           << S(<< "G", "P", "T", "R", "F" >>), S(<< "2", "2", "5", "4", "4", "4" >>), << >> >>
    /\ ~HasSum(sentence)
    /\ ret.err.kind = "ParseError"
    /\ dst.rv.val[2] = << 0, 1, 1, 22, 54, 44, 0 >>
    /\ dst.rv.val[3] = Stale("time")

\* Token position i (counted from 1 as the fields of structs are) has no
\* converter in the struct type: it lies past the last field or at a field
\* without a tag.
Ignored(typ, i) == i > NumField(typ) \/ structs[typ][i].tag = noTag

\* The tokens with the token at position i changed to t, or t added when i
\* is one past the last token.
WithToken(toks, i, t) ==
    IF i = Len(toks) + 1 THEN Append(toks, t) ELSE [toks EXCEPT ![i] = t]

\* The sentence s with its tokens replaced by toks and its checksum suffix,
\* when it has one, adjusted by the change of the exclusive or of the text.
Retokened(s, toks) ==
    << s[1] >> \o Join(toks) \o
        (IF HasSum(s)
         THEN Star(Xor(XorAll(Join(toks)), Xor(Declared(s).val, XorAll(Body(s)))))
         ELSE << >>)

\* The error and the struct the same call gives for another sentence.
Redone(s) ==
    IF ret.op = "ParseTo"
    THEN [err |-> ParseTo(ret.before, s).err, rv |-> ParseTo(ret.before, s).dst.rv]
    ELSE [err |-> Parse(s, registry).err, rv |-> Parse(s, registry).rec]

\* Two structs are equal but for their checksum fields.
EqualButChecksum(a, b) ==
    /\ a.typ = b.typ
    /\ \A i \in 1..NumField(a.typ) :
          structs[a.typ][i].tag # tagChecksum => a.val[i] = b.val[i]

\* C29: a token at a position past the last field of the struct, or at a
\* field without a tag, is neither validated nor stored: changing it to
\* any token, or adding it, with the checksum suffix adjusted, gives the
\* same error and the same fields but for the checksum field.
IgnoredTokens ==
    (/\ Decoding
     /\ HasSum(sentence) => (TwoHexDigits(Suffix(sentence)) /\ Declared(sentence).val >= 0)) =>
        \A i \in 2..(Len(TokensOf(sentence)) + 1), t \in Tokens :
            Ignored(CallType, i) =>
                LET again == Redone(Retokened(sentence, WithToken(TokensOf(sentence), i, t)))
                IN /\ again.err = ret.err
                   /\ EqualButChecksum(again.rv, Returned)

\* ParseTo into a used STN has decoded "$GPSTN,1,T*.." without error: the
\* token "T" past the last field was not looked at.
IgnoredTokensSeen ==
    /\ ret.op = "ParseTo"
    /\ Decoding
    /\ ret.before.rv = StaleStruct("STN")
    /\ TokensOf(sentence) = << S(<< "G", "P", "S", "T", "N" >>), S(<< "1" >>), S(<< "T" >>) >>
    /\ HasSum(sentence) /\ ~Mismatch(sentence)
    /\ ret.err = NoError
    /\ dst.rv.val = << S(<< "G", "P", "S", "T", "N" >>), << 1 >> >>

-----------------------------------------------------------------------------
(* Errors of the decoder for struct types of the user, checked under SpecUser *)

\* The struct type has no field named Type.
NoTypeField(typ) == \A i \in 1..NumField(typ) : structs[typ][i].name # "Type"

\* The fields of a struct type without a Type field whose converter fails
\* on the token at their position, field 0 among them, and the first.
NoTypeFailing(typ, toks) ==
    { i \in 1..NumField(typ) :
        /\ i <= Len(toks)
        /\ structs[typ][i].tag \in methodTags
        /\ ConverterError(typ, toks, i) # NoError }
NoTypeFirstFailing(typ, toks) ==
    CHOOSE i \in NoTypeFailing(typ, toks) : \A j \in NoTypeFailing(typ, toks) : i <= j

\* C24 as stated: decoding into a struct type without a Type field fails
\* with ErrMissingType for every sentence that passes the envelope checks,
\* whatever its tokens and whatever happened at the fields.
MissingTypeAlways ==
    (Decoding /\ NoTypeField(CallType)) => DecoderError = ErrMissingType

\* C24: decoding into a struct type without a Type field fails for every
\* sentence that passes the envelope checks: with the error of the first
\* converter that fails on its token, and with ErrMissingType only when
\* every converter accepted its token.  ParseTo and Parse return the
\* decoder's error unless the declared checksum does not match.
MissingTypeAfterFields ==
    (Decoding /\ NoTypeField(CallType)) =>
        /\ DecoderError =
               IF NoTypeFailing(CallType, TokensOf(sentence)) # {}
               THEN ConverterError(CallType, TokensOf(sentence),
                                   NoTypeFirstFailing(CallType, TokensOf(sentence)))
               ELSE ErrMissingType
        /\ ret.err = IF Mismatch(sentence) THEN ErrChecksum ELSE DecoderError

\* ParseTo has decoded "$GPBOD,1" into a struct without a Type field: both
\* fields were written and ErrMissingType was returned.
MissingTypeAfterFieldsSeen ==
    /\ ret.op = "ParseTo"
    /\ Decoding
    /\ CallType = "NoType"
    /\ ~HasSum(sentence)
    /\ ret.err = ErrMissingType
    /\ dst.rv.val = << S(<< "G", "P", "B", "O", "D" >>), << 1 >> >>

\* The Type tag opens a pattern with '/' and either has no second '/' to
\* close it or encloses an expression that does not compile.
MalformedPattern(tag) ==
    /\ tag[1] = Ord("/")
    /\ \/ Len(tag) < 2
       \/ tag[Len(tag)] # Ord("/")
       \/ ~Compile(SubSeq(tag, 2, Len(tag) - 1)).ok

\* C25 as stated: for a Type tag that is a malformed pattern decoding
\* fails with ErrTypeSyntax for every sentence, and no field is written.
BadMatcherSyntax ==
    (Decoding /\ ~NoTypeField(CallType) /\ MalformedPattern(TypeTag(CallType))) =>
        (DecoderError = ErrTypeSyntax /\ Returned = CallBefore)

-----------------------------------------------------------------------------
(* SpecConcFair: the goroutines of SpecConc under a fair scheduler *)

\* The steps in which goroutine p takes the lock, and its other steps
\* inside a call.
Acquire(p) == RegLock(p) \/ ReadBegin(p)
Proceed(p) ==
    \/ WriteBegin(p) \/ WriteEnd(p) \/ RegUnlock(p)
    \/ ReadEnd(p) \/ ParseRUnlock(p) \/ ParseDecode(p)

\* The scheduler runs every goroutine that can run, so a step that stays
\* possible is taken.  A goroutine waiting in Lock or RLock is queued by
\* the mutex and woken when the lock is released, so it is not passed
\* over for ever by goroutines that arrive later: taking the lock is
\* strongly fair.  Nothing makes a goroutine call Register or Parse.
Fairness == \A p \in Procs : SF_vars(Acquire(p)) /\ WF_vars(Proceed(p))

SpecConcFair == InitConc /\ [][NextConc]_vars /\ Fairness

\* A goroutine that is between calls, is about to ask for the lock, or is
\* decoding after RUnlock, does not hold the lock.
LockReleased ==
    \A p \in Procs :
        procs[p].pc \in {"idle", "lock", "rlock", "decode"} =>
            (lock.w # p /\ p \notin lock.readers)

\* C30: Register and Parse never return or panic with the registry lock
\* held, and the lock is not held while Parse decodes the fields; under a
\* fair scheduler every call of Register and of Parse that has begun
\* returns (or panics), however the calls of the goroutines interleave.
CallsComplete ==
    /\ []LockReleased
    /\ \A p \in Procs : (procs[p].pc # "idle") ~> (procs[p].pc = "idle")

\* A Register call has returned and left the lock free, and a Parse call
\* that read the entry it wrote is decoding without the lock.
CallsCompleteSeen ==
    \E p \in Procs : \E q \in Procs \ {p} :
        /\ procs[p].pc = "idle" /\ procs[p].ret = "done"
        /\ EntryOf(registry, ConcKey) = StructValue("THS")
        /\ procs[q].pc = "decode" /\ procs[q].got = StructValue("THS")
        /\ lock = LockFree
====
